---- MODULE Spec2Model ----
(***************************************************************************)
(* A model of the Technion course fetcher (Ramsey02/fetcher).              *)
(*                                                                         *)
(* Spec       one term of smart_fetcher_fixed.main: the course listing,    *)
(*            the per-course loop of fetch_semester_courses, the local     *)
(*            snapshot file written by save_to_json and the document-store *)
(*            write of save_to_firestore_university_structure, with the    *)
(*            two counters of the term loop.                               *)
(* SpecCache  sequences of _send_request calls against the on-disk         *)
(*            response cache, for both fetcher classes.                    *)
(* SpecBuilding  sequences of get_building_name calls with the memo table  *)
(*            of functools.cache, over several processes.                  *)
(* SpecMain   the term loop of smart_fetcher_fixed.main with its summary   *)
(*            and exit status.                                             *)
(* SpecSchedule  one get_course_schedule call on an upstream answer.       *)
(* SpecScheduleOrder  one get_course_schedule call on groups that differ   *)
(*            in their sequence number only.                               *)
(* SpecData   one record of get_course_data written by save_to_json.       *)
(* SpecParse  one _parse_schedule_text call on a schedule text.            *)
(* SpecAttempt  one turn of the course loop with the course query and the  *)
(*            schedule query answered by the upstream.                     *)
(* SpecSave   one call of a document-store save function, one step per     *)
(*            turn of its batch loop.                                      *)
(*                                                                         *)
(* Strings that the code slices (object ids, query strings) are sequences  *)
(* of one-character strings; Python dicts are functions; lists are         *)
(* sequences.  The Hebrew dictionary keys of the source are written with   *)
(* ASCII names, listed where they are introduced.                          *)
(***************************************************************************)
EXTENDS Integers, Sequences, FiniteSets, TLC

VARIABLES
    \* ---- one term of smart_fetcher_fixed.main ----
    pc,               \* position in main's iteration for the term
    db,               \* fetcher.db: "client" once Firestore is initialised, else "none"
    output_dir,       \* args.output_dir
    files,            \* the file courses_<year>_<semester>.json of each directory
    prev_run_file,    \* that file of the output directory, as the run found it
    course_numbers,   \* fetch_semester_courses: the listing
    courses,          \* fetch_semester_courses: the records built so far
    failed_courses,   \* fetch_semester_courses: the identifiers that failed
    events,           \* what the loop has done so far, in order
    metadata,         \* the university's metadata document
    committed,        \* the batches committed to the document store, in order
    last_attempt,     \* the latest get_course_data call of the loop
    store_docs,       \* the documents of the term's collection: id -> data
    \* ---- _send_request and the response cache ----
    fetcher_class,    \* the class of the fetcher object
    ctor_cache_dir,   \* the cache_dir argument its constructor was given
    cache_dir,        \* self.cache_dir
    cache_files,      \* the files of the cache directory: name -> text
    last_call,        \* the latest direct _send_request call of this process
    prev_call,        \* the call before it
    \* ---- get_building_name ----
    building_memo,    \* the table of functools.cache: key -> returned value
    building_queries, \* upstream queries get_building_name has issued, per key
    last_building,    \* the latest get_building_name call
    \* ---- the term loop of smart_fetcher_fixed.main ----
    main_pc,            \* position in main
    main_env,           \* the arguments, the clock and fetcher.db
    semesters_to_fetch, \* the terms of the run, in order
    term_log,           \* the iterations done: term and how it ended
    successful_fetches,
    failed_fetches,
    exit_status,        \* the status the process ended with, -1 while it runs
    \* ---- get_course_schedule ----
    sched_in,           \* the course number and the upstream's answer
    sched_out,          \* what the call returned
    \* ---- the fields of get_course_data and their snapshot entry ----
    data_in,            \* course_data: one entry of d.results
    data_out,           \* the record built from it and its snapshot entry
    \* ---- _parse_schedule_text ----
    parse_in,           \* schedule_text
    parse_out,          \* the entries returned
    \* ---- the batch loop of the save functions ----
    save_in,            \* the function, fetcher.db and the number of records
    save_out            \* the batches committed by the call, in order

pipeVars  == <<pc, db, output_dir, files, prev_run_file, course_numbers, courses,
               failed_courses, events, metadata, committed, last_attempt,
               store_docs>>
cacheVars == <<fetcher_class, ctor_cache_dir, cache_dir, cache_files,
               last_call, prev_call>>
buildingVars == <<building_memo, building_queries, last_building>>
mainVars == <<main_pc, main_env, semesters_to_fetch, term_log,
              successful_fetches, failed_fetches, exit_status>>
\* The variables of main other than the two counters of the term loop.
mainRestVars == <<main_pc, main_env, semesters_to_fetch, term_log, exit_status>>
schedVars == <<sched_in, sched_out>>
dataVars == <<data_in, data_out>>
parseVars == <<parse_in, parse_out>>
saveVars == <<save_in, save_out>>
unitVars == <<dataVars, parseVars, saveVars>>
otherVars == <<buildingVars, mainVars, schedVars, unitVars>>
vars      == <<pipeVars, cacheVars, otherVars>>

(***************************************************************************)
(* Bounds of the model.                                                    *)
(***************************************************************************)
MaxCourses == 2     \* longest course listing
MaxPrev    == 1     \* most records in the snapshot left by an earlier run

None == "None"

\* No call made yet; no metadata document written yet.
NoCall     == [kind |-> "no call"]
NoDocument == [kind |-> "no document"]

\* No get_course_data call made yet.
NoAttempt == [kind |-> "no call"]

\* No get_building_name call made yet.
NoBuildingCall == [kind |-> "no call"]

\* get_building_name has not been called: nothing memoized, nothing queried.
BuildingIdle ==
    /\ building_memo = [k \in {} |-> <<>>]
    /\ building_queries = [k \in {} |-> 0]
    /\ last_building = NoBuildingCall

\* main is not running.
MainIdle ==
    /\ main_pc = "idle"
    /\ main_env = [kind |-> "none"]
    /\ semesters_to_fetch = <<>>
    /\ term_log = <<>>
    /\ successful_fetches = 0
    /\ failed_fetches = 0
    /\ exit_status = -1

\* No get_course_schedule call made.
NoSchedule == [kind |-> "no call"]
SchedIdle == sched_in = NoSchedule /\ sched_out = NoSchedule

\* No record built from a sample course_data.
NoData == [kind |-> "no call"]
DataIdle == data_in = NoData /\ data_out = NoData

\* _parse_schedule_text has not been called.
NoParse == [kind |-> "no call"]
ParseIdle == parse_in = NoParse /\ parse_out = NoParse

\* No save function has been called on its own.
NoSave == [kind |-> "no call"]
SaveIdle == save_in = NoSave /\ save_out = NoSave

\* None of the single functions is being exercised.
UnitIdle == DataIdle /\ ParseIdle /\ SaveIdle

BoundedSeq(S, n) == UNION { [1..k -> S] : k \in 0..n }

RECURSIVE Flatten(_)
Flatten(ss) == IF ss = <<>> THEN <<>> ELSE Head(ss) \o Flatten(Tail(ss))

EmptyDict == [k \in {} |-> None]

(***************************************************************************)
(* The upstream service.                                                   *)
(***************************************************************************)
\* Object ids of the course listing ("SM" followed by the course number).
Otjids == { <<"S", "M", "1">>, <<"S", "M", "2">> }

\* The canonical empty-results payload {"d": {"results": []}}.
EmptyResults == [d |-> [results |-> <<>>]]

\* What the upstream holds for one course: three sample contents.  The exam
\* of content "C" carries a date that is not in the /Date(<ms>)/ encoding.
Profiles == {"A", "B", "C"}

\* One entry of d.results of the course query, for object x with content p.
RawCourse(x, p) == [Otjid |-> x, profile |-> p]

\* d.results of the course query: no entry, one entry of any content, or
\* two entries (one such list stands for every answer with several).
CourseResults(x) ==
    { rs \in BoundedSeq({ RawCourse(x, p) : p \in Profiles }, 2) :
        Len(rs) = 2 => (rs[1].profile = "A" /\ rs[2].profile = "B") }

\* HTTP outcomes of one batch request for a course: the status code, the
\* number of chunks of the multipart body, and the decoded JSON payload.
CourseResponses(x) ==
    { [status |-> s, chunks |-> c, payload |-> [d |-> [results |-> rs]]] :
        s \in {202, 500}, c \in {3, 1}, rs \in CourseResults(x) }

\* Schedules get_course_schedule may build for a course.
Schedules == { <<>>, <<"e1">> }

\* Schedules a snapshot of an earlier run may hold.
PrevSchedules == { <<>>, <<"e2">> }

(***************************************************************************)
(* _send_request, the part after the cache lookup: the HTTP call and the   *)
(* three checks.  Result: [outcome, value] with outcome "return"/"raise".  *)
(***************************************************************************)
Raise(msg) == [outcome |-> "raise", value |-> msg]
Return(v)  == [outcome |-> "return", value |-> v]

LiveRequest(resp, allow_empty) ==
    IF resp.status # 202 THEN Raise("Bad status code")
    ELSE IF resp.chunks # 3 THEN Raise("Invalid response format")
    ELSE IF ~allow_empty /\ resp.payload = EmptyResults THEN Raise("Empty response")
    ELSE Return(resp.payload)

\* NoCacheTechnionCourseFetcher._send_request: the live request, nothing else.
NoCacheSendRequest(resp, allow_empty) == LiveRequest(resp, allow_empty)

(***************************************************************************)
(* get_course_data                                                         *)
(***************************************************************************)
\* clean_course_number: the Otjid without its "SM" prefix.
CleanCourseNumber(otjid) ==
    IF Len(otjid) >= 2 /\ otjid[1] = "S" /\ otjid[2] = "M"
    THEN SubSeq(otjid, 3, Len(otjid))
    ELSE otjid

\* course_data["Exams"]["results"] of each content.
RawExams(p) ==
    CASE p = "A" -> <<>>
      [] p = "B" -> << [CategoryCode |-> "FI",
                        ExamDate |-> "/Date(1738368000000)/",
                        ExamBegTime |-> "PT09H00M00S",
                        ExamEndTime |-> "PT12H00M00S"] >>
      [] p = "C" -> << [CategoryCode |-> "FB",
                        ExamDate |-> "2025-02-01",
                        ExamBegTime |-> "",
                        ExamEndTime |-> ""] >>

\* The date strings of the model that match r"/Date\((\d+)\)/", with the
\* UTC date of their millisecond timestamp in the format "%d-%m-%Y".
SapDates == ("/Date(1738368000000)/" :> "01-02-2025")

\* _parse_sap_date followed by strftime: ValueError for a string that does
\* not match.
ParseSapDate(date_str) ==
    IF date_str \in DOMAIN SapDates
    THEN Return(SapDates[date_str])
    ELSE Raise("ValueError")

\* exam_mapping; the labels are "moed a", "moed b", "boxan moed a" and
\* "boxan moed b".
ExamMapping == [FI |-> "moed_a", FB |-> "moed_b",
                MI |-> "boxan_moed_a", M2 |-> "boxan_moed_b"]

\* The time strings of the model that match r"PT(\d\d)H(\d\d)M\d\dS", with
\* their "HH:MM".
ExamTimes == ("PT09H00M00S" :> "09:00") @@ ("PT12H00M00S" :> "12:00")
                @@ ("PT00H00M00S" :> "00:00")

\* A time_str that is appended whenever both times have the form.
ExamTimeStrAlways(exam) ==
    IF exam.ExamBegTime \in DOMAIN ExamTimes /\ exam.ExamEndTime \in DOMAIN ExamTimes
    THEN <<" ", ExamTimes[exam.ExamBegTime], " - ", ExamTimes[exam.ExamEndTime]>>
    ELSE <<>>

\* time_str of one exam, as the pieces of the formatted string.
ExamTimeStr(exam) ==
    IF /\ exam.ExamBegTime \in DOMAIN ExamTimes
       /\ exam.ExamEndTime \in DOMAIN ExamTimes
       /\ \/ ExamTimes[exam.ExamBegTime] # "00:00"
          \/ ExamTimes[exam.ExamEndTime] # "00:00"
    THEN <<" ", ExamTimes[exam.ExamBegTime], " - ", ExamTimes[exam.ExamEndTime]>>
    ELSE <<>>

\* The exam loop from entry i on, exams being the dict built so far.  A
\* formatted exam is the sequence of the pieces of f"{date}{time_str}".
RECURSIVE ProcessExams(_, _, _)
ProcessExams(raw, i, exams) ==
    IF i > Len(raw) THEN Return(exams)
    ELSE IF raw[i].CategoryCode \notin DOMAIN ExamMapping \/ raw[i].ExamDate = ""
         THEN ProcessExams(raw, i + 1, exams)
         ELSE LET date == ParseSapDate(raw[i].ExamDate) IN
              IF date.outcome = "raise" THEN date
              ELSE ProcessExams(raw, i + 1,
                       (ExamMapping[raw[i].CategoryCode]
                            :> (<<date.value>> \o ExamTimeStr(raw[i]))) @@ exams)

\* The fields get_course_data derives from one upstream record, other than
\* the course number and the schedule, when the exam loop raises nothing.
ParsedFields(p) ==
    IF p = "A"
    THEN [name |-> "Algebra", syllabus |-> "", faculty |-> "Math",
          academic_level |-> "BSc", points |-> "3", responsible |-> "",
          prerequisites |-> "", adjoining_courses |-> "",
          no_additional_credit |-> "", notes |-> "",
          exams |-> ProcessExams(RawExams(p), 1, EmptyDict).value]
    ELSE [name |-> "Algebra 1m", syllabus |-> "groups", faculty |-> "Math",
          academic_level |-> "BSc", points |-> "3.5", responsible |-> "Dr X Y",
          prerequisites |-> "(01040031)", adjoining_courses |-> "01040032",
          no_additional_credit |-> "01040066", notes |-> "n",
          exams |-> ProcessExams(RawExams(p), 1, EmptyDict).value]

CourseInfo(number, f, schedule) ==
    [course_number |-> number, name |-> f.name, syllabus |-> f.syllabus,
     faculty |-> f.faculty, academic_level |-> f.academic_level,
     points |-> f.points, responsible |-> f.responsible,
     prerequisites |-> f.prerequisites,
     adjoining_courses |-> f.adjoining_courses,
     no_additional_credit |-> f.no_additional_credit,
     notes |-> f.notes, exams |-> f.exams, schedule |-> schedule]

\* A get_course_data that takes the first result, however many there are.
GetCourseDataFirstResult(resp, sched) ==
    LET r == NoCacheSendRequest(resp, FALSE) IN
    IF r.outcome = "raise" THEN r
    ELSE LET results == r.value.d.results
             exams == ProcessExams(RawExams(results[1].profile), 1, EmptyDict)
         IN  IF exams.outcome = "raise" THEN exams
             ELSE Return(CourseInfo(CleanCourseNumber(results[1].Otjid),
                                    ParsedFields(results[1].profile), sched))

\* get_course_data on the upstream's answer resp, with sched the schedule
\* get_course_schedule builds for the course.
GetCourseData(resp, sched) ==
    LET r == NoCacheSendRequest(resp, FALSE) IN
    IF r.outcome = "raise" THEN r
    ELSE LET results == r.value.d.results IN
         IF Len(results) # 1 THEN Raise("Expected 1 result")
         ELSE LET exams == ProcessExams(RawExams(results[1].profile), 1, EmptyDict) IN
              IF exams.outcome = "raise" THEN exams
              ELSE Return(CourseInfo(CleanCourseNumber(results[1].Otjid),
                                     ParsedFields(results[1].profile), sched))

(***************************************************************************)
(* save_to_json and the snapshot file.                                     *)
(* Keys of "general": number = "mispar miktzoa", name = "shem miktzoa",    *)
(* syllabus, faculty, academic_level = "misgeret limudim", points,         *)
(* responsible, notes, prerequisites = "miktzoot kedem", adjoining =       *)
(* "miktzoot tzmudim", no_additional_credit; then one key per exam kind.   *)
(***************************************************************************)
NoFile      == [kind |-> "absent"]
CorruptFile == [kind |-> "corrupt"]
JsonFile(v) == [kind |-> "json", data |-> v]

\* "if x: d[k] = x" for a string x.
SetIfTruthy(dict, k, x) == IF x # "" THEN (k :> x) @@ dict ELSE dict

\* A document without the exam loop.
WithExamsDropped(dict, exams) == dict

\* The exam loop: every exam with a non-empty date becomes a key of general.
WithExams(dict, exams) ==
    [k \in { e \in DOMAIN exams : exams[e] # <<>> } |-> exams[k]] @@ dict

General(c) ==
    LET base == [number |-> c.course_number, name |-> c.name,
                 syllabus |-> c.syllabus, faculty |-> c.faculty,
                 academic_level |-> c.academic_level, points |-> c.points,
                 responsible |-> c.responsible, notes |-> c.notes]
        g1 == SetIfTruthy(base, "prerequisites", c.prerequisites)
        g2 == SetIfTruthy(g1, "adjoining_courses", c.adjoining_courses)
        g3 == SetIfTruthy(g2, "no_additional_credit", c.no_additional_credit)
    IN  WithExams(g3, c.exams)

\* A snapshot entry that leaves the schedule out.
CourseDictNoSchedule(c) == [general |-> General(c), schedule |-> <<>>]

CourseDict(c) == [general |-> General(c), schedule |-> c.schedule]

SaveToJson(cs) == JsonFile([k \in 1..Len(cs) |-> CourseDict(cs[k])])

(***************************************************************************)
(* The points and the exams of one record: get_course_data on one entry of *)
(* d.results, then the entry save_to_json writes for the record.           *)
(***************************************************************************)
MaxExams == 2     \* most entries of course_data["Exams"]["results"]
MaxFrac  == 3     \* most digits after the decimal point of Points

NonZeroDigits == {"1", "2", "3", "4", "5", "6", "7", "8", "9"}

\* re.sub(r"(\.[1-9]+)0+$", r"\1", points), points a sequence of characters:
\* a point followed by non-zero digits and then zeros up to the end loses
\* those zeros.
SubNonZeroThenZeros(points) ==
    LET n == Len(points)
        hit(i, k) == /\ points[i] = "."
                     /\ k >= 1 /\ i + k < n
                     /\ \A j \in (i + 1)..(i + k) : points[j] \in NonZeroDigits
                     /\ \A j \in (i + k + 1)..n : points[j] = "0"
        hits == { ik \in (1..n) \X (1..n) : hit(ik[1], ik[2]) }
    IN  IF hits = {} THEN points
        ELSE LET ik == CHOOSE ik \in hits : TRUE
             IN  SubSeq(points, 1, ik[1] + ik[2])

\* re.sub(r"\.0+$", r"", points): a point followed by zeros only, up to the
\* end, is removed with them.
SubPointZeros(points) ==
    LET n == Len(points)
        hits == { i \in 1..(n - 1) : /\ points[i] = "."
                                     /\ \A j \in (i + 1)..n : points[j] = "0" }
    IN  IF hits = {} THEN points
        ELSE SubSeq(points, 1, (CHOOSE i \in hits : \A j \in hits : i <= j) - 1)

\* "Format points".
FormatPoints(points) == SubPointZeros(SubNonZeroThenZeros(points))

\* Points of the upstream: a digit, a point and up to MaxFrac digits, or an
\* integer without a point.
PointsSamples ==
    { <<d, ".">> \o f : d \in {"0", "3"},
                        f \in BoundedSeq({"0", "5"}, MaxFrac) \ {<<>>} }
        \cup { <<"3">>, <<"1", "0">> }

\* Entries of course_data["Exams"]["results"]: the four kinds and an unknown
\* one, with and without a date, with times, with midnight times, with times
\* that are not in the PT..H..M..S form and without times; the last one has
\* a date that is not in the /Date(<ms>)/ encoding.
ExamSamples ==
    { [CategoryCode |-> "FI", ExamDate |-> "/Date(1738368000000)/",
       ExamBegTime |-> "PT09H00M00S", ExamEndTime |-> "PT12H00M00S"],
      [CategoryCode |-> "FI", ExamDate |-> "/Date(1738368000000)/",
       ExamBegTime |-> "PT00H00M00S", ExamEndTime |-> "PT00H00M00S"],
      [CategoryCode |-> "FB", ExamDate |-> "/Date(1738368000000)/",
       ExamBegTime |-> "", ExamEndTime |-> ""],
      [CategoryCode |-> "FB", ExamDate |-> "",
       ExamBegTime |-> "PT09H00M00S", ExamEndTime |-> "PT12H00M00S"],
      [CategoryCode |-> "MI", ExamDate |-> "/Date(1738368000000)/",
       ExamBegTime |-> "PT00H00M00S", ExamEndTime |-> "PT12H00M00S"],
      [CategoryCode |-> "M2", ExamDate |-> "/Date(1738368000000)/",
       ExamBegTime |-> "09:00", ExamEndTime |-> "12:00"],
      [CategoryCode |-> "XX", ExamDate |-> "/Date(1738368000000)/",
       ExamBegTime |-> "PT09H00M00S", ExamEndTime |-> "PT12H00M00S"],
      [CategoryCode |-> "FI", ExamDate |-> "2025-02-01",
       ExamBegTime |-> "", ExamEndTime |-> ""] }

\* Sample entries of d.results of the course query.
CourseDataSamples ==
    [ Otjid : Otjids, Points : PointsSamples,
      Exams : BoundedSeq(ExamSamples, MaxExams) ]

\* get_course_data from "course_data = results[0]" on, for an empty schedule
\* and empty texts: the record, or the exception of the exam loop.
RecordOf(course_data) ==
    LET exams == ProcessExams(course_data.Exams, 1, EmptyDict) IN
    IF exams.outcome = "raise" THEN exams
    ELSE Return([course_number |-> CleanCourseNumber(course_data.Otjid),
                 name |-> "Algebra", syllabus |-> "", faculty |-> "Math",
                 academic_level |-> "BSc",
                 points |-> FormatPoints(course_data.Points),
                 responsible |-> "", prerequisites |-> "",
                 adjoining_courses |-> "", no_additional_credit |-> "",
                 notes |-> "", exams |-> exams.value, schedule |-> <<>>])

(***************************************************************************)
(* save_to_firestore_university_structure                                  *)
(***************************************************************************)
\* The loop over the items of the snapshot: a later item of the same course
\* number replaces an earlier one; an item with an empty number is skipped.
RECURSIVE LoadItems(_, _)
LoadItems(items, acc) ==
    IF items = <<>> THEN acc
    ELSE LET item == Head(items)
             course_num == item.general.number
         IN  LoadItems(Tail(items),
                       IF course_num # <<>>
                       THEN (course_num :> item.schedule) @@ acc
                       ELSE acc)

\* existing_schedules: empty when the file is absent or json.load raises.
LoadExistingSchedules(file) ==
    IF file.kind = "json" THEN LoadItems(file.data, EmptyDict) ELSE EmptyDict

\* "if output_dir is None: output_dir = './data'"
DataDir(dir) == IF dir = None THEN "./data" ELSE dir

\* A reconciliation that never uses the existing schedule.
ReconciledScheduleNever(course, existing_schedules) == course.schedule

\* A reconciliation that prefers the existing schedule whenever there is one.
ReconciledScheduleAlways(course, existing_schedules) ==
    IF course.course_number \in DOMAIN existing_schedules
    THEN existing_schedules[course.course_number]
    ELSE course.schedule

\* A reconciliation that, for a course without an existing schedule, falls
\* back to the schedule of some other course of the snapshot.
ReconciledScheduleAnyCourse(course, existing_schedules) ==
    IF course.schedule # <<>> THEN course.schedule
    ELSE IF course.course_number \in DOMAIN existing_schedules
    THEN existing_schedules[course.course_number]
    ELSE IF \E n \in DOMAIN existing_schedules : existing_schedules[n] # <<>>
    THEN existing_schedules[CHOOSE n \in DOMAIN existing_schedules :
                                existing_schedules[n] # <<>>]
    ELSE <<>>

\* The schedule written for a course: the existing one when the fetched one
\* is empty and the course number is a key of existing_schedules.
ReconciledSchedule(course, existing_schedules) ==
    IF course.schedule = <<>> /\ course.course_number \in DOMAIN existing_schedules
    THEN existing_schedules[course.course_number]
    ELSE course.schedule

\* course_data and its document id (fetched_at is the server's timestamp).
CourseDocument(course, existing_schedules) ==
    [id   |-> course.course_number,
     data |-> [general  |-> General(course),
               schedule |-> ReconciledSchedule(course, existing_schedules),
               metadata |-> [university |-> "Technion"]]]

\* A write batch is committed when it holds BatchLimit documents.
BatchLimit == 500

\* The batch loop over the documents ws: the batches committed, in order.
\* i counts from 1, so "(i + 1) % 500 == 0" of the source reads i % BatchLimit.
\* "if (i + 1) % 500 == 0": the batch is committed after the i-th write.
CommitsAt(i) == i % BatchLimit = 0

\* A loop that commits its last batch whatever it holds.
CommitsRestAlways(n) == TRUE

\* "if len(courses) % 500 != 0": the last batch is committed after the loop.
CommitsRest(n) == n % BatchLimit # 0

RECURSIVE CommitBatches(_, _, _, _)
CommitBatches(ws, i, batch, done) ==
    IF i > Len(ws)
    THEN IF CommitsRest(Len(ws)) THEN Append(done, batch) ELSE done
    ELSE LET b == Append(batch, ws[i]) IN
         IF CommitsAt(i)
         THEN CommitBatches(ws, i + 1, <<>>, Append(done, b))
         ELSE CommitBatches(ws, i + 1, b, done)

\* The whole function: [metadata, committed] after the call, given the
\* store before it.  Nothing is written when fetcher.db is not initialised.
SaveToFirestoreUniversityStructure(fetcher_db, cs, dir, fs, md, done) ==
    IF fetcher_db = "none" THEN [metadata |-> md, committed |-> done]
    ELSE LET existing_schedules == LoadExistingSchedules(fs[DataDir(dir)])
             ws == [k \in 1..Len(cs) |-> CourseDocument(cs[k], existing_schedules)]
         IN  [metadata  |-> [semester_count |-> Len(cs)],
              committed |-> CommitBatches(ws, 1, <<>>, done)]

(***************************************************************************)
(* save_to_firestore_only: the records rebuilt from the snapshot file.     *)
(***************************************************************************)
\* The Hebrew words of each key of "general", in Latin letters.
KeyWords ==
    [number |-> <<"mspr", "mqcw'">>, name |-> <<"shm", "mqcw'">>,
     syllabus |-> <<"sylbws">>, faculty |-> <<"pqwlth">>,
     academic_level |-> <<"msgrt", "lymwdym">>, points |-> <<"nqwdwt">>,
     responsible |-> <<"axraym">>, notes |-> <<"h'rwt">>,
     prerequisites |-> <<"mqcw'wt", "qdm">>,
     adjoining_courses |-> <<"mqcw'wt", "cmwdym">>,
     no_additional_credit |-> <<"mqcw'wt", "lla", "zykwy", "nwsp">>,
     moed_a |-> <<"mw'd", "a">>, moed_b |-> <<"mw'd", "b">>,
     boxan_moed_a |-> <<"bwxn", "mw'd", "a">>,
     boxan_moed_b |-> <<"bwxn", "mw'd", "b">>]

\* "<word> in k" for a key k of general: no word of a key holds the words
\* looked for ("mw'd", "bxynh") as a proper part.
KeyContains(k, word) == \E i \in DOMAIN KeyWords[k] : KeyWords[k][i] = word

\* dict.get(k): None for a missing key.
DictGet(dict, k) == IF k \in DOMAIN dict THEN dict[k] ELSE None

\* CourseObj(d) for one item d of the snapshot file.
CourseObj(d) ==
    [course_number |-> d.general.number,
     name |-> DictGet(d.general, "name"),
     syllabus |-> DictGet(d.general, "syllabus"),
     faculty |-> DictGet(d.general, "faculty"),
     academic_level |-> DictGet(d.general, "academic_level"),
     points |-> DictGet(d.general, "points"),
     responsible |-> DictGet(d.general, "responsible"),
     notes |-> DictGet(d.general, "notes"),
     schedule |-> IF "schedule" \in DOMAIN d THEN d.schedule ELSE <<>>,
     prerequisites |-> DictGet(d.general, "prerequisites"),
     adjoining_courses |-> DictGet(d.general, "adjoining_courses"),
     no_additional_credit |-> DictGet(d.general, "no_additional_credit"),
     exams |-> [k \in { k \in DOMAIN d.general :
                           KeyContains(k, "mw'd") \/ KeyContains(k, "bxynh") }
                  |-> d.general[k]]]

(***************************************************************************)
(* One term of smart_fetcher_fixed.main.                                   *)
(***************************************************************************)
Dirs == {"./data", "./out"}

\* Records an earlier run may have left in the snapshot file.
PrevCourses ==
    { CourseInfo(CleanCourseNumber(x), ParsedFields("A"), s) :
        x \in Otjids, s \in PrevSchedules }

PrevFiles ==
    {NoFile, CorruptFile}
        \cup { SaveToJson(cs) : cs \in BoundedSeq(PrevCourses, MaxPrev) }

\* The documents the earlier run left in the collection of the term: one
\* per record of its snapshot, none when it left no readable snapshot.
PrevStore(file) ==
    IF file.kind # "json" THEN EmptyDict
    ELSE [id \in { file.data[k].general.number : k \in DOMAIN file.data } |->
            LET k == CHOOSE k \in DOMAIN file.data : file.data[k].general.number = id
            IN  [general  |-> file.data[k].general,
                 schedule |-> file.data[k].schedule,
                 metadata |-> [university |-> "Technion"]]]

\* batch.commit() for the set operations ws, in order: each document is
\* created or replaced, no document is deleted.
RECURSIVE CommitToStore(_, _)
CommitToStore(docs, ws) ==
    IF ws = <<>> THEN docs
    ELSE CommitToStore((Head(ws).id :> Head(ws).data) @@ docs, Tail(ws))

\* Answers of the upstream to the listing query of get_course_numbers.
ListingResponses ==
    { [status |-> s, chunks |-> c, payload |-> [d |-> [results |-> rs]]] :
        s \in {202, 500}, c \in {3, 1},
        rs \in BoundedSeq({ [Otjid |-> x] : x \in Otjids }, MaxCourses) }

\* get_course_numbers
GetCourseNumbers(resp) ==
    LET r == NoCacheSendRequest(resp, FALSE) IN
    IF r.outcome = "raise" THEN r
    ELSE Return([k \in 1..Len(r.value.d.results) |-> r.value.d.results[k].Otjid])

Event(kind, id) == [kind |-> kind, id |-> id]

\* The try block of the course loop when get_course_data returned course.
TryBody(st, course_number, course) ==
    [courses        |-> Append(st.courses, course),
     failed_courses |-> st.failed_courses,
     events         |-> st.events \o << Event("attempt", course_number),
                                        Event("append", course_number),
                                        Event("sleep", course_number) >>,
     pc             |-> "loop"]

\* A loop whose except clause lets the exception leave the function.
ExceptClausePropagates(st, course_number) ==
    [courses        |-> st.courses,
     failed_courses |-> Append(st.failed_courses, course_number),
     events         |-> st.events \o << Event("attempt", course_number),
                                        Event("fail", course_number) >>,
     pc             |-> "term_failed"]

\* A loop whose except clause does not record the identifier.
ExceptClauseForgets(st, course_number) ==
    [courses        |-> st.courses,
     failed_courses |-> st.failed_courses,
     events         |-> st.events \o << Event("attempt", course_number),
                                        Event("fail", course_number) >>,
     pc             |-> "loop"]

\* The except clause of the course loop: record the identifier, go on.
ExceptClause(st, course_number) ==
    [courses        |-> st.courses,
     failed_courses |-> Append(st.failed_courses, course_number),
     events         |-> st.events \o << Event("attempt", course_number),
                                        Event("fail", course_number) >>,
     pc             |-> "loop"]

PipeInit ==
    /\ pc = "start"
    /\ db \in {"client", "none"}
    /\ output_dir \in Dirs
    /\ \E f \in PrevFiles :
          files = [d \in Dirs |-> IF d = "./data" THEN f ELSE NoFile]
    /\ prev_run_file = files[output_dir]
    /\ store_docs = PrevStore(files["./data"])
    /\ course_numbers = <<>>
    /\ courses = <<>>
    /\ failed_courses = <<>>
    /\ events = <<>>
    /\ metadata = NoDocument
    /\ committed = <<>>
    /\ last_attempt = NoAttempt

\* The fetcher of main is a NoCacheTechnionCourseFetcher.
CacheIdle ==
    /\ fetcher_class = "NoCacheTechnionCourseFetcher"
    /\ ctor_cache_dir = None
    /\ cache_dir = None
    /\ cache_files = EmptyDict
    /\ last_call = NoCall
    /\ prev_call = NoCall

Init == PipeInit /\ CacheIdle /\ BuildingIdle /\ MainIdle /\ SchedIdle /\ UnitIdle

\* How the try block of one iteration can end: fetch_semester_courses
\* raises (the listing query failed), it returns no course, the save to
\* the document store raises, or the term is saved.
TermOutcomes == {"fetch raised", "no courses", "save raised", "saved"}

\* An iteration that counts a term without courses as a failure.
IterationCountsEmpty(outcome, successful, failed) ==
    IF outcome = "saved"
    THEN [successful |-> successful + 1, failed |-> failed, pc |-> "loop"]
    ELSE [successful |-> successful, failed |-> failed + 1, pc |-> "loop"]

\* An iteration whose exception leaves main.
IterationPropagates(outcome, successful, failed) ==
    IF outcome = "saved"
    THEN [successful |-> successful + 1, failed |-> failed, pc |-> "loop"]
    ELSE IF outcome = "no courses"
    THEN [successful |-> successful, failed |-> failed, pc |-> "loop"]
    ELSE [successful |-> successful, failed |-> failed, pc |-> "crashed"]

\* One iteration of the term loop after the semester_name lookup: the try
\* block ends with outcome; the except clause counts the term and goes on.
Iteration(outcome, successful, failed) ==
    IF outcome = "saved"
    THEN [successful |-> successful + 1, failed |-> failed, pc |-> "loop"]
    ELSE IF outcome = "no courses"
    THEN [successful |-> successful, failed |-> failed, pc |-> "loop"]
    ELSE [successful |-> successful, failed |-> failed + 1, pc |-> "loop"]

\* main: "if not fetcher.db: sys.exit(1)"
ExitNoFirestore ==
    /\ pc = "start" /\ db = "none"
    /\ pc' = "exit"
    /\ UNCHANGED <<db, output_dir, files, prev_run_file, course_numbers, courses,
                   failed_courses, events, metadata, committed, last_attempt,
                   store_docs, cacheVars, otherVars>>

\* fetch_semester_courses up to the loop: the listing.  An exception of the
\* listing query leaves fetch_semester_courses and is caught by main.
ListCourses ==
    /\ pc = "start" /\ db = "client"
    /\ \E resp \in ListingResponses :
          LET r == GetCourseNumbers(resp) IN
          IF r.outcome = "raise"
          THEN LET nx == Iteration("fetch raised", successful_fetches, failed_fetches) IN
               /\ pc' = "term_failed"
               /\ successful_fetches' = nx.successful
               /\ failed_fetches' = nx.failed
               /\ UNCHANGED course_numbers
          ELSE /\ pc' = "loop"
               /\ course_numbers' = r.value
               /\ UNCHANGED <<successful_fetches, failed_fetches>>
    /\ UNCHANGED <<db, output_dir, files, prev_run_file, courses, failed_courses, events,
                   metadata, committed, last_attempt, store_docs, cacheVars,
                   buildingVars, mainRestVars, schedVars, unitVars>>

\* len(results) as get_course_data sees it, -1 when _send_request raised
\* before the payload was decoded.
ResultCount(resp) ==
    IF resp.status = 202 /\ resp.chunks = 3
    THEN Len(resp.payload.d.results) ELSE -1

\* The position of the loop: one event "attempt" per iteration done.
Attempts == SelectSeq(events, LAMBDA e : e.kind = "attempt")

\* One iteration of the course loop.
FetchCourse ==
    /\ pc = "loop" /\ Len(Attempts) < Len(course_numbers)
    /\ LET course_number == course_numbers[Len(Attempts) + 1]
           st == [courses |-> courses, failed_courses |-> failed_courses,
                  events |-> events, pc |-> pc]
       IN  \E resp \in CourseResponses(course_number), sched \in Schedules :
              LET r  == GetCourseData(resp, sched)
                  nx == IF r.outcome = "return"
                        THEN TryBody(st, course_number, r.value)
                        ELSE ExceptClause(st, course_number)
              IN  /\ courses' = nx.courses
                  /\ failed_courses' = nx.failed_courses
                  /\ events' = nx.events
                  /\ pc' = nx.pc
                  /\ last_attempt' = [id |-> course_number,
                                      n_results |-> ResultCount(resp),
                                      outcome |-> r.outcome]
    /\ UNCHANGED <<db, output_dir, files, prev_run_file, course_numbers, metadata,
                   committed, store_docs, cacheVars, otherVars>>

\* fetch_semester_courses after the loop: the snapshot file is written to
\* the output directory and the records are returned to main.
FinishFetch ==
    /\ pc = "loop" /\ Len(Attempts) = Len(course_numbers)
    /\ files' = [files EXCEPT ![output_dir] = SaveToJson(courses)]
    /\ pc' = "fetched"
    /\ UNCHANGED <<db, output_dir, prev_run_file, course_numbers, courses, failed_courses,
                   events, metadata, committed, last_attempt,
                   store_docs, cacheVars, otherVars>>

\* main: "if not courses: continue"
SkipEmptyTerm ==
    /\ pc = "fetched" /\ courses = <<>>
    /\ pc' = "skipped"
    /\ LET nx == Iteration("no courses", successful_fetches, failed_fetches) IN
       /\ successful_fetches' = nx.successful
       /\ failed_fetches' = nx.failed
    /\ UNCHANGED <<db, output_dir, files, prev_run_file, course_numbers, courses,
                   failed_courses, events, metadata, committed, last_attempt,
                   store_docs, cacheVars, buildingVars, mainRestVars, schedVars,
                   unitVars>>

\* main: save_to_firestore_university_structure(fetcher, courses,
\* "Technion", year, semester), without an output_dir argument, and
\* "successful_fetches += 1".
SaveUniversityStructure ==
    /\ pc = "fetched" /\ courses # <<>>
    /\ LET r == SaveToFirestoreUniversityStructure(db, courses, None, files,
                                                   metadata, committed)
       IN  /\ metadata' = r.metadata
           /\ committed' = r.committed
           /\ store_docs' = CommitToStore(store_docs, Flatten(r.committed))
    /\ pc' = "saved"
    /\ LET nx == Iteration("saved", successful_fetches, failed_fetches) IN
       /\ successful_fetches' = nx.successful
       /\ failed_fetches' = nx.failed
    /\ UNCHANGED <<db, output_dir, files, prev_run_file, course_numbers, courses,
                   failed_courses, events, last_attempt,
                   cacheVars, buildingVars, mainRestVars, schedVars, unitVars>>

Next ==
    \/ ExitNoFirestore
    \/ ListCourses
    \/ FetchCourse
    \/ FinishFetch
    \/ SkipEmptyTerm
    \/ SaveUniversityStructure

Spec == Init /\ [][Next]_vars

(***************************************************************************)
(* _send_request with the response cache.                                  *)
(***************************************************************************)
\* Query strings of the model.  They differ only in a character that is
\* unsafe in a file name, or that is unsafe in one and "_" in the other.
Queries == { <<"a", "?">>, <<"a", "_">>, <<"a", "*">> }

\* re.sub(r"[<>:\"/\\|?*]", "_", query)
UnsafeChars == {"<", ">", ":", "\"", "/", "\\", "|", "?", "*"}
Sanitize(q) == [k \in 1..Len(q) |-> IF q[k] \in UnsafeChars THEN "_" ELSE q[k]]

\* The [:64] of the cache file name.
CacheNameLen == 64
Truncate(s, n) == SubSeq(s, 1, IF Len(s) < n THEN Len(s) ELSE n)

\* hashlib.sha256(query.encode()).hexdigest()[:8]: eight hex digits of the
\* digest, which distinct queries can share.  The course queries of
\* SM00108000 and SM00110726 for 2024/200 do (802e24b0), and they have the
\* same first 64 characters; the first and the third query of the model
\* stand for such a pair, the second has its own digits.  The digits of
\* every other query are written as a term over the query: they are its own.
DigestPrefixes ==
    (<<"a", "?">> :> "802e24b0") @@ (<<"a", "_">> :> "5f1c07aa")
        @@ (<<"a", "*">> :> "802e24b0")

Sha256Prefix(q) ==
    IF q \in DOMAIN DigestPrefixes THEN <<DigestPrefixes[q]>> ELSE <<"sha256">> \o q

\* _get_cache_file: <sanitized prefix>_<hash>.json in the cache directory.
GetCacheFile(q) == [name |-> Truncate(Sanitize(q), CacheNameLen),
                    hash |-> Sha256Prefix(q)]

\* json.dump / json.load of a decoded payload.
JsonDump(v) == <<"json", v>>
JsonLoad(text) == text[2]

\* Payloads the upstream may send, and its answers to one request.
Payloads == { EmptyResults,
              [d |-> [results |-> <<"r1">>]],
              [d |-> [results |-> <<"r2">>]] }

Responses ==
    { [status |-> 500, chunks |-> 3, payload |-> EmptyResults],
      [status |-> 202, chunks |-> 1, payload |-> EmptyResults] }
        \cup { [status |-> 202, chunks |-> 3, payload |-> p] : p \in Payloads }

\* What one call does: its result, the HTTP calls it made, the cache
\* afterwards, and whether it read or wrote a cache file.
CallEffect(result, upstream, cfiles, read, wrote) ==
    [result |-> result, upstream |-> upstream, cache_files |-> cfiles,
     cache_read |-> read, cache_write |-> wrote]

\* A _send_request that never stores what it fetched.
BaseSendRequestNoStore(cdir, cfiles, q, allow_empty, resp) ==
    IF cdir # None /\ GetCacheFile(q) \in DOMAIN cfiles
    THEN CallEffect(Return(JsonLoad(cfiles[GetCacheFile(q)])), 0, cfiles,
                    TRUE, FALSE)
    ELSE CallEffect(LiveRequest(resp, allow_empty), 1, cfiles, FALSE, FALSE)

\* A _send_request that uses the cache directory without looking at
\* self.cache_dir.
BaseSendRequestIgnoresCacheDir(cdir, cfiles, q, allow_empty, resp) ==
    IF GetCacheFile(q) \in DOMAIN cfiles
    THEN CallEffect(Return(JsonLoad(cfiles[GetCacheFile(q)])), 0, cfiles,
                    TRUE, FALSE)
    ELSE LET r == LiveRequest(resp, allow_empty) IN
         IF r.outcome = "return"
         THEN CallEffect(r, 1, (GetCacheFile(q) :> JsonDump(r.value)) @@ cfiles,
                         FALSE, TRUE)
         ELSE CallEffect(r, 1, cfiles, FALSE, FALSE)

\* TechnionCourseFetcher._send_request for a fetcher whose self.cache_dir
\* is cdir, when the cache directory holds cfiles and the upstream would
\* answer resp.
BaseSendRequest(cdir, cfiles, q, allow_empty, resp) ==
    IF cdir # None /\ GetCacheFile(q) \in DOMAIN cfiles
    THEN CallEffect(Return(JsonLoad(cfiles[GetCacheFile(q)])), 0, cfiles,
                    TRUE, FALSE)
    ELSE LET r == LiveRequest(resp, allow_empty) IN
         IF r.outcome = "return" /\ cdir # None
         THEN CallEffect(r, 1, (GetCacheFile(q) :> JsonDump(r.value)) @@ cfiles,
                         FALSE, TRUE)
         ELSE CallEffect(r, 1, cfiles, FALSE, FALSE)

\* The method the call resolves to, by the class of the fetcher.
SendRequest(class, cdir, cfiles, q, allow_empty, resp) ==
    IF class = "NoCacheTechnionCourseFetcher"
    THEN CallEffect(NoCacheSendRequest(resp, allow_empty), 1, cfiles, FALSE, FALSE)
    ELSE BaseSendRequest(cdir, cfiles, q, allow_empty, resp)

\* self.cache_dir after __init__ of the class, given the cache_dir argument.
ConstructedCacheDir(class, arg) ==
    IF class = "NoCacheTechnionCourseFetcher" THEN None ELSE arg

FetcherClasses == {"TechnionCourseFetcher", "NoCacheTechnionCourseFetcher"}
CacheDirArgs   == {None, "./.cache"}

\* The variables of main's term are not used by this specification.
PipeIdle ==
    /\ pc = "requests"
    /\ db = "none"
    /\ output_dir = "./data"
    /\ files = [d \in Dirs |-> NoFile]
    /\ prev_run_file = NoFile
    /\ store_docs = EmptyDict
    /\ course_numbers = <<>>
    /\ courses = <<>>
    /\ failed_courses = <<>>
    /\ events = <<>>
    /\ metadata = NoDocument
    /\ committed = <<>>
    /\ last_attempt = NoAttempt

CacheInit ==
    /\ fetcher_class \in FetcherClasses
    /\ ctor_cache_dir \in CacheDirArgs
    /\ cache_dir = ConstructedCacheDir(fetcher_class, ctor_cache_dir)
    /\ cache_files = EmptyDict
    /\ last_call = NoCall
    /\ prev_call = NoCall

\* One _send_request call of the current fetcher.
DoSendRequest ==
    /\ \E q \in Queries, allow_empty \in BOOLEAN, resp \in Responses :
          LET e == SendRequest(fetcher_class, cache_dir, cache_files, q,
                               allow_empty, resp)
          IN  /\ cache_files' = e.cache_files
              /\ last_call' = [query |-> q, allow_empty |-> allow_empty,
                               result |-> e.result, upstream |-> e.upstream,
                               cache_read |-> e.cache_read,
                               cache_write |-> e.cache_write]
              /\ prev_call' = last_call
    /\ UNCHANGED <<fetcher_class, ctor_cache_dir, cache_dir, pipeVars, otherVars>>

\* The process ends and a later one constructs a fetcher; the cache
\* directory stays on disk.
NewFetcher ==
    /\ last_call # NoCall
    /\ \E class \in FetcherClasses, arg \in CacheDirArgs :
          /\ fetcher_class' = class
          /\ ctor_cache_dir' = arg
          /\ cache_dir' = ConstructedCacheDir(class, arg)
    /\ last_call' = NoCall
    /\ prev_call' = NoCall
    /\ UNCHANGED <<cache_files, pipeVars, otherVars>>

CacheNext == DoSendRequest \/ NewFetcher

InitCache == PipeIdle /\ CacheInit /\ BuildingIdle /\ MainIdle /\ SchedIdle /\ UnitIdle

SpecCache == InitCache /\ [][CacheNext]_vars

(***************************************************************************)
(* get_building_name.  A building name is a sequence of words and          *)
(* whitespace characters; the Hebrew words of the source are written in    *)
(* Latin letters ("bnyn" for the word "building", "bnyyn" for its other    *)
(* spelling).                                                              *)
(***************************************************************************)
Whitespace == {" ", "\t"}

RECURSIVE LStrip(_)
LStrip(s) == IF s # <<>> /\ Head(s) \in Whitespace THEN LStrip(Tail(s)) ELSE s

RECURSIVE RStrip(_)
RStrip(s) ==
    IF s # <<>> /\ s[Len(s)] \in Whitespace
    THEN RStrip(SubSeq(s, 1, Len(s) - 1))
    ELSE s

\* building.strip()
Strip(s) == LStrip(RStrip(s))

\* re.sub(r"\s+", " ", s): every run of whitespace becomes one space.
RECURSIVE CollapseWhitespace(_)
CollapseWhitespace(s) ==
    IF s = <<>> THEN <<>>
    ELSE IF Head(s) \in Whitespace
         THEN <<" ">> \o CollapseWhitespace(LStrip(s))
         ELSE <<Head(s)>> \o CollapseWhitespace(Tail(s))

\* The words of a phrase, joined by single spaces.
RECURSIVE Phrase(_)
Phrase(ws) ==
    IF Len(ws) <= 1 THEN ws ELSE <<Head(ws), " ">> \o Phrase(Tail(ws))

\* building_mapping, in the order of the dict literal.
BuildingMapping ==
    << [old |-> Phrase(<<"bnyn", "awlmn">>),        new |-> Phrase(<<"awlmn">>)],
       [old |-> Phrase(<<"bnyn", "bwrwbyc", "hndsh", "azrxyt">>),
                                                     new |-> Phrase(<<"bwrwbyc", "hndsh", "azrxyt">>)],
       [old |-> Phrase(<<"bnyn", "dn", "khan">>),    new |-> Phrase(<<"dn", "khan">>)],
       [old |-> Phrase(<<"bnyn", "hn'", "awyrwnawtyt">>),
                                                     new |-> Phrase(<<"hn'", "awyrwnawtyt">>)],
       [old |-> Phrase(<<"bnyn", "zysapl">>),        new |-> Phrase(<<"zysapl">>)],
       [old |-> Phrase(<<"bnyn", "lhndst", "xmrym">>), new |-> Phrase(<<"hndst", "xmrym">>)],
       [old |-> Phrase(<<"bnyn", "lyydy", "dyyws">>), new |-> Phrase(<<"lyydy", "dyyws">>)],
       [old |-> Phrase(<<"bnyn", "lmd'y", "hmxsb">>), new |-> Phrase(<<"md'y", "hmxsb">>)],
       [old |-> Phrase(<<"bnyn", "'sh", "amdw">>),   new |-> Phrase(<<"amdw">>)],
       [old |-> Phrase(<<"bnyn", "'sh", "tawb">>),   new |-> Phrase(<<"tawb">>)],
       [old |-> Phrase(<<"bnyn", "'sh", "sgw">>),    new |-> Phrase(<<"sgw">>)],
       [old |-> Phrase(<<"bnyn", "pysbk">>),         new |-> Phrase(<<"pysbk">>)],
       [old |-> Phrase(<<"bnyn", "pqwlth", "lrpwah">>), new |-> Phrase(<<"pqwlth", "lrpwah">>)],
       [old |-> Phrase(<<"bnyyn", "nnw-alqtrwnyqh">>), new |-> Phrase(<<"nnw-alqtrwnyqh">>)],
       [old |-> Phrase(<<"bnyyn", "sport">>),        new |-> Phrase(<<"sport">>)] >>

\* building.startswith(old)
StartsWith(s, prefix) ==
    Len(s) >= Len(prefix) /\ SubSeq(s, 1, Len(prefix)) = prefix

\* The loop over building_mapping.items(), from entry i on: the first
\* matching prefix is replaced, a name without one is returned as it is.
RECURSIVE MapBuilding(_, _)
MapBuilding(building, i) ==
    IF i > Len(BuildingMapping) THEN building
    ELSE IF StartsWith(building, BuildingMapping[i].old)
         THEN BuildingMapping[i].new
                \o SubSeq(building, Len(BuildingMapping[i].old) + 1, Len(building))
         ELSE MapBuilding(building, i + 1)

\* The normalisation of a non-empty building value.
NormalizeBuilding(building) == MapBuilding(CollapseWhitespace(Strip(building)), 1)

\* The keys (year, semester, room_id) get_building_name is called with.
BuildingKeys ==
    { [year |-> "2024", semester |-> "200", room_id |-> "R1"],
      [year |-> "2024", semester |-> "201", room_id |-> "R1"],
      [year |-> "2024", semester |-> "200", room_id |-> ""] }

\* The query string of a key; urllib.parse.quote leaves the room ids of
\* the model as they are.
BuildingQuery(key) ==
    << "GObjectSet(Otjid='", key.room_id, "',Peryr='", key.year, "',Perid='",
       key.semester, "')", "?", "sap-client=700&%24select=Building" >>

\* Building values the upstream may hold for a room.
RawBuildings ==
    { <<>>,
      <<" ">>,
      <<" ", "bnyn", " ", "\t", "awlmn", " ", "2", " ">>,
      <<"mrkz", "\t", " ", "hmbqrym">> }

\* Answers of the upstream to the building query: a failed transport, the
\* canonical empty payload, an entity without the Building field, and
\* entities with it.
BuildingResponses ==
    { [status |-> 500, chunks |-> 3, payload |-> EmptyResults],
      [status |-> 202, chunks |-> 1, payload |-> EmptyResults],
      [status |-> 202, chunks |-> 3, payload |-> EmptyResults],
      [status |-> 202, chunks |-> 3, payload |-> [d |-> [Otjid |-> "R1"]]] }
        \cup { [status |-> 202, chunks |-> 3, payload |-> [d |-> [Building |-> b]]] :
                  b \in RawBuildings }

\* The body of the try block, given the result of self._send_request: the
\* value returned from inside it, the exception that leaves it, or
\* "fall through" when the block ends without a return.
TryBuilding(result) ==
    IF result.outcome = "raise" THEN result
    ELSE IF "Building" \notin DOMAIN result.value.d THEN Raise("KeyError")
    ELSE IF result.value.d.Building # <<>>
         THEN Return(NormalizeBuilding(result.value.d.Building))
         ELSE [outcome |-> "fall through", value |-> <<>>]

\* No lookup was made by the call.
NoLookup == [outcome |-> "no lookup"]

\* What one execution of the body does: its result, the answer of
\* _send_request it worked on, the HTTP calls made and the cache afterwards.
BuildingEffect(result, lookup, upstream, cfiles) ==
    [result |-> result, lookup |-> lookup, upstream |-> upstream,
     cache_files |-> cfiles]

\* A body whose try block has no except clause.
GetBuildingNameBodyNoExcept(class, cdir, cfiles, key, resp) ==
    IF key.room_id = ""
    THEN BuildingEffect(Return(<<>>), NoLookup, 0, cfiles)
    ELSE LET e == SendRequest(class, cdir, cfiles, BuildingQuery(key), FALSE, resp)
             t == TryBuilding(e.result)
         IN  BuildingEffect(IF t.outcome = "fall through" THEN Return(<<>>) ELSE t,
                            e.result, e.upstream, e.cache_files)

\* The body of get_building_name (the function under the decorator).
GetBuildingNameBody(class, cdir, cfiles, key, resp) ==
    IF key.room_id = ""
    THEN BuildingEffect(Return(<<>>), NoLookup, 0, cfiles)
    ELSE LET e == SendRequest(class, cdir, cfiles, BuildingQuery(key), FALSE, resp)
             t == TryBuilding(e.result)
         IN  BuildingEffect(IF t.outcome = "return" THEN t ELSE Return(<<>>),
                            e.result, e.upstream, e.cache_files)

\* A decorator that stores a name but not the empty string.
GetBuildingNameRetryEmpty(memo, class, cdir, cfiles, key, resp) ==
    IF key \in DOMAIN memo
    THEN [result |-> Return(memo[key]), lookup |-> NoLookup, upstream |-> 0,
          cache_files |-> cfiles, memo_hit |-> TRUE, memo |-> memo]
    ELSE LET b == GetBuildingNameBody(class, cdir, cfiles, key, resp) IN
         [result |-> b.result, lookup |-> b.lookup, upstream |-> b.upstream,
          cache_files |-> b.cache_files, memo_hit |-> FALSE,
          memo |-> IF b.result.outcome = "return" /\ b.result.value # <<>>
                   THEN (key :> b.result.value) @@ memo ELSE memo]

\* A decorator that never looks a key up.
GetBuildingNameUncached(memo, class, cdir, cfiles, key, resp) ==
    LET b == GetBuildingNameBody(class, cdir, cfiles, key, resp) IN
    [result |-> b.result, lookup |-> b.lookup, upstream |-> b.upstream,
     cache_files |-> b.cache_files, memo_hit |-> FALSE,
     memo |-> IF b.result.outcome = "return"
              THEN (key :> b.result.value) @@ memo ELSE memo]

\* get_building_name under @cache: a key of the table is answered from
\* it; otherwise the body runs and its return value is stored.
GetBuildingName(memo, class, cdir, cfiles, key, resp) ==
    IF key \in DOMAIN memo
    THEN [result |-> Return(memo[key]), lookup |-> NoLookup, upstream |-> 0,
          cache_files |-> cfiles, memo_hit |-> TRUE, memo |-> memo]
    ELSE LET b == GetBuildingNameBody(class, cdir, cfiles, key, resp) IN
         [result |-> b.result, lookup |-> b.lookup, upstream |-> b.upstream,
          cache_files |-> b.cache_files, memo_hit |-> FALSE,
          memo |-> IF b.result.outcome = "return"
                   THEN (key :> b.result.value) @@ memo ELSE memo]

\* The process starts with an empty table and no query issued.
BuildingInit ==
    /\ building_memo = [k \in {} |-> <<>>]
    /\ building_queries = [k \in BuildingKeys |-> 0]
    /\ last_building = NoBuildingCall

\* One get_building_name call of the current fetcher.
CallGetBuildingName ==
    /\ \E key \in BuildingKeys, resp \in BuildingResponses :
          LET r == GetBuildingName(building_memo, fetcher_class, cache_dir,
                                   cache_files, key, resp)
          IN  /\ building_memo' = r.memo
              /\ cache_files' = r.cache_files
              /\ building_queries' =
                    [building_queries EXCEPT ![key] = @ + r.upstream]
              /\ last_building' = [key |-> key, result |-> r.result,
                                   lookup |-> r.lookup, memo_hit |-> r.memo_hit,
                                   upstream |-> r.upstream]
    /\ UNCHANGED <<fetcher_class, ctor_cache_dir, cache_dir, last_call, prev_call,
                   pipeVars, mainVars, schedVars, unitVars>>

\* The process ends and a later one constructs a fetcher: the table of
\* functools.cache is gone, the cache directory stays on disk.
NewBuildingProcess ==
    /\ last_building # NoBuildingCall
    /\ \E class \in FetcherClasses, arg \in CacheDirArgs :
          /\ fetcher_class' = class
          /\ ctor_cache_dir' = arg
          /\ cache_dir' = ConstructedCacheDir(class, arg)
    /\ building_memo' = [k \in {} |-> <<>>]
    /\ building_queries' = [k \in BuildingKeys |-> 0]
    /\ last_building' = NoBuildingCall
    /\ UNCHANGED <<cache_files, last_call, prev_call, pipeVars, mainVars, schedVars, unitVars>>

BuildingNext == CallGetBuildingName \/ NewBuildingProcess

InitBuilding == PipeIdle /\ CacheInit /\ BuildingInit /\ MainIdle /\ SchedIdle /\ UnitIdle

SpecBuilding == InitBuilding /\ [][BuildingNext]_vars

(***************************************************************************)
(* _parse_schedule_text.  A schedule text is a sequence of tokens: words,  *)
(* dates ("01.03." for \d\d\.\d\d\.), times ("10:30" for \d\d:\d\d),       *)
(* numbers, and the characters " ", ",", ":" and "-".  Hebrew words are    *)
(* written in Latin letters: "ywm" is the word "day", "ywm~" and "rashw~"  *)
(* are the pointed spellings of "day" and of the first day (the latter     *)
(* without its last letter), "rashwn" ... "shyshy" are the six day names.  *)
(***************************************************************************)
DateTokens   == {"01.03.", "08.03."}
TimeTokens   == {"10:30", "12:30"}
NumberTokens == {"13"}

\* The day names of the pattern, and the name each one is stored as.
DayAlternatives == {"rashw~", "rashwn", "shny", "shlyshy", "rby'y", "xmyshy", "shyshy"}
StoredDay(day) == IF day = "rashw~" THEN "rashwn" ELSE day

\* s starts with tokens of the sets pat[1], pat[2], ...
Matches(s, pat) ==
    Len(s) >= Len(pat) /\ \A i \in 1..Len(pat) : s[i] \in pat[i]

\* re.sub(r"^<pat>", "", s)
SubPrefix(s, pat) ==
    IF Matches(s, pat) THEN SubSeq(s, Len(pat) + 1, Len(s)) ELSE s

\* re.sub(r"<pat>.*$", "", s): s is cut where pat first matches.
SubFromFirst(s, pat) ==
    LET at == { i \in 1..Len(s) : Matches(SubSeq(s, i, Len(s)), pat) } IN
    IF at = {} THEN s
    ELSE SubSeq(s, 1, (CHOOSE i \in at : \A j \in at : i <= j) - 1)

\* re.sub(r"<pat>$", "", s)
SubSuffix(s, pat) ==
    IF Len(s) >= Len(pat) /\ Matches(SubSeq(s, Len(s) - Len(pat) + 1, Len(s)), pat)
    THEN SubSeq(s, 1, Len(s) - Len(pat))
    ELSE s

\* The five clean-up substitutions, in order: the prefixes "m <date>, ",
\* "'d <date>, " and "<date> 'd <date>, ", then everything from
\* ", ywca mn hkll: " on and the suffix ", hkl <n> ymym".
CleanScheduleText(text) ==
    LET from   == << {"m"}, {" "}, DateTokens, {","}, {" "} >>
        until  == << {"'d"}, {" "}, DateTokens, {","}, {" "} >>
        range  == << DateTokens, {" "}, {"'d"}, {" "}, DateTokens, {","}, {" "} >>
        except == << {","}, {" "}, {"ywca"}, {" "}, {"mn"}, {" "}, {"hkll"}, {":"},
                     {" "} >>
        total  == << {","}, {" "}, {"hkl"}, {" "}, NumberTokens, {" "}, {"ymym"} >>
        t1 == SubPrefix(text, from)
        t2 == SubPrefix(t1, until)
        t3 == SubPrefix(t2, range)
        t4 == SubFromFirst(t3, except)
    IN  SubSuffix(t4, total)

\* text.split(","): cur is the piece being read, acc the pieces before it.
RECURSIVE SplitComma(_, _, _)
SplitComma(s, cur, acc) ==
    IF s = <<>> THEN Append(acc, cur)
    ELSE IF Head(s) = "," THEN SplitComma(Tail(s), <<>>, Append(acc, cur))
    ELSE SplitComma(Tail(s), Append(cur, Head(s)), acc)

\* An entry that keeps the day name as it is written.
DayEntryAsWritten(entry) ==
    IF ~Matches(entry, << {"ywm", "ywm~"}, {" "}, DayAlternatives, {" "}, TimeTokens >>)
    THEN <<>>
    ELSE LET dash == LStrip(SubSeq(entry, 6, Len(entry))) IN
         IF dash = <<>> \/ Head(dash) # "-" THEN <<>>
         ELSE LET end == LStrip(Tail(dash)) IN
              IF end = <<>> \/ Head(end) \notin TimeTokens THEN <<>>
              ELSE << <<entry[3], entry[5], Head(end)>> >>

\* The re.match of one stripped entry and what is appended for it: the
\* triple (day, time_begin, time_end) of a match, nothing otherwise.  The
\* pattern is "(ywm|ywm~) <day> <time>\s*-\s*<time>" at the start.
DayEntry(entry) ==
    IF ~Matches(entry, << {"ywm", "ywm~"}, {" "}, DayAlternatives, {" "}, TimeTokens >>)
    THEN <<>>
    ELSE LET dash == LStrip(SubSeq(entry, 6, Len(entry))) IN
         IF dash = <<>> \/ Head(dash) # "-" THEN <<>>
         ELSE LET end == LStrip(Tail(dash)) IN
              IF end = <<>> \/ Head(end) \notin TimeTokens THEN <<>>
              ELSE << <<StoredDay(entry[3]), entry[5], Head(end)>> >>

\* A parser that looks at the first piece only.
ParseScheduleTextFirstOnly(schedule_text) ==
    DayEntry(Strip(SplitComma(CleanScheduleText(schedule_text), <<>>, <<>>)[1]))

\* _parse_schedule_text
ParseScheduleText(schedule_text) ==
    LET pieces == SplitComma(CleanScheduleText(schedule_text), <<>>, <<>>) IN
    Flatten([k \in 1..Len(pieces) |-> DayEntry(Strip(pieces[k]))])

(***************************************************************************)
(* get_course_schedule.  Keys of an entry: group = "qbwch", type = "swg",  *)
(* day = "ywm", time = "sh'h", building, room, staff, num = "ms.".         *)
(***************************************************************************)
MaxGroups == 2      \* most groups in the answer to the schedule query

\* The summary of a meeting without regular times.
IrregularSentinel == <<"la~", " ", "sdyr~">>

\* re.match of the two date-literal patterns: "<date>: <time>-<time>" and
\* "(<date>, )+bhtamh <time>-<time>".
RECURSIVE AfterDateList(_)
AfterDateList(s) ==
    IF Matches(s, << DateTokens, {","}, {" "} >>)
    THEN AfterDateList(SubSeq(s, 4, Len(s)))
    ELSE s

IsDateLiteral(text) ==
    \/ Matches(text, << DateTokens, {":"}, {" "}, TimeTokens, {"-"}, TimeTokens >>)
    \/ /\ Matches(text, << DateTokens, {","}, {" "} >>)
       /\ Matches(AfterDateList(text),
                  << {"bhtamh"}, {" "}, TimeTokens, {"-"}, TimeTokens >>)

\* The two "continue" of the item loop.
IsSkippedText(schedule_text) ==
    \/ schedule_text = <<>>
    \/ schedule_text = IrregularSentinel
    \/ IsDateLiteral(schedule_text)

\* Strings the code converts with int(): group ids, room numbers of a
\* RoomText that matches r"(\d\d\d)-(\d\d\d\d)", event ids made of digits.
SeqNumbers  == ("0" :> 0) @@ ("1" :> 1) @@ ("2" :> 2) @@ ("3" :> 3) @@ ("11" :> 11)
RoomNumbers == ("043-0305" :> 305)
ItemNumbers == ("70011" :> 70011)
SeeDetails  == "rah prtym"

\* Course numbers of the model; the second matches r"03940[89]\d\d".
ScheduleCourses == {"02340114", "03940800"}
IsSportCourse(course_number) == course_number = "03940800"

\* category of an item, with the special case of the sport courses.
Category(raw_schedule, raw_item, course_number) ==
    IF /\ IsSportCourse(course_number)
       /\ raw_item.CategoryText \in { <<"sport">>, <<"nbxrt", " ", "sport">> }
    THEN IF /\ \/ LET rest == LStrip(SubSeq(raw_item.Name, 6, Len(raw_item.Name))) IN
                  /\ Matches(raw_item.Name,
                             << {"sport"}, {" "}, {"xynwk"}, {" "}, {"gwpny"} >>)
                  /\ rest # <<>> /\ Head(rest) = "-"
               \/ raw_item.Name = <<"sport", " ", "nbxrwt", " ", "sport">>
            /\ raw_schedule.Name # <<>>
         THEN IF Head(raw_schedule.Name) \in {"SE12"}
              THEN LStrip(Tail(raw_schedule.Name))
              ELSE raw_schedule.Name
         ELSE raw_item.Name
    ELSE raw_item.CategoryText

\* building, room and building_room_dict of an item.  building_lookup is
\* what get_building_name returns for its RoomId, room_info what
\* get_room_info returns for its event id.
RoomOf(raw_item) ==
    IF raw_item.RoomText # "" /\ raw_item.RoomText # SeeDetails
    THEN IF raw_item.RoomText \in DOMAIN RoomNumbers
         THEN [building |-> raw_item.building_lookup,
               room |-> RoomNumbers[raw_item.RoomText],
               building_room_dict |-> EmptyDict]
         ELSE [building |-> <<>>, room |-> 0, building_room_dict |-> EmptyDict]
    ELSE [building |-> <<>>, room |-> 0,
          building_room_dict |-> IF raw_item.Otjid # "" THEN raw_item.room_info
                                 ELSE EmptyDict]

\* staff: one line per person, the title first unless it is empty or "-".
RECURSIVE Staff(_)
Staff(persons) ==
    IF persons = <<>> THEN <<>>
    ELSE LET title == Strip(Head(persons).Title)
             line  == (IF title # <<>> /\ title # <<"-">>
                       THEN title \o <<" ">> ELSE <<>>)
                        \o <<Head(persons).FirstName, " ", Head(persons).LastName>>
         IN  IF Tail(persons) = <<>> THEN line
             ELSE line \o <<"\n">> \o Staff(Tail(persons))

\* day_mapping
DayMapping ==
    ("rashwn" :> 0) @@ ("shny" :> 1) @@ ("shlyshy" :> 2) @@ ("rby'y" :> 3)
        @@ ("xmyshy" :> 4) @@ ("shyshy" :> 5)

\* The dict appended for one (day, time_begin, time_end) of an item.
ScheduleEntry(group_id, category, r, staff, raw_item, e) ==
    LET key == << IF e[1] \in DOMAIN DayMapping THEN DayMapping[e[1]] ELSE -1,
                  e[2], e[3] >>
        from_dict == key[1] # -1 /\ key \in DOMAIN r.building_room_dict
    IN  [group    |-> group_id,
         type     |-> category,
         day      |-> e[1],
         time     |-> <<e[2], " - ", e[3]>>,
         building |-> IF from_dict THEN r.building_room_dict[key][1] ELSE r.building,
         room     |-> IF from_dict THEN r.building_room_dict[key][2] ELSE r.room,
         staff    |-> staff,
         num      |-> IF raw_item.Otjid \in DOMAIN ItemNumbers
                      THEN ItemNumbers[raw_item.Otjid] ELSE group_id]

\* The body of the item loop for one raw_item of a group.
ItemEntries(raw_schedule, raw_item, course_number) ==
    IF IsSkippedText(raw_item.ScheduleSummary) THEN <<>>
    ELSE LET es == ParseScheduleText(raw_item.ScheduleSummary) IN
         [k \in 1..Len(es) |->
             ScheduleEntry(SeqNumbers[raw_schedule.ZzSeSeqnr],
                           Category(raw_schedule, raw_item, course_number),
                           RoomOf(raw_item), Staff(raw_item.Persons),
                           raw_item, es[k])]

\* A sort key that is the group id alone.
SortKeyLessById(a, b) == SeqNumbers[a.ZzSeSeqnr] < SeqNumbers[b.ZzSeSeqnr]

\* raw_schedule_sort_key, and sorted(): groups by ascending id with the
\* groups of id 0 last; groups with equal keys keep their order.
SortKeyLess(a, b) ==
    LET ka == SeqNumbers[a.ZzSeSeqnr]
        kb == SeqNumbers[b.ZzSeSeqnr]
    IN  \/ ka # 0 /\ kb = 0
        \/ (ka = 0) = (kb = 0) /\ ka < kb

RECURSIVE InsertSorted(_, _)
InsertSorted(sorted, x) ==
    IF sorted = <<>> THEN <<x>>
    ELSE IF SortKeyLess(x, Head(sorted)) THEN <<x>> \o sorted
    ELSE <<Head(sorted)>> \o InsertSorted(Tail(sorted), x)

RECURSIVE SortedGroups(_)
SortedGroups(results) ==
    IF results = <<>> THEN <<>>
    ELSE InsertSorted(SortedGroups(SubSeq(results, 1, Len(results) - 1)),
                      results[Len(results)])

\* A get_course_schedule without the try block around the request.
GetCourseScheduleNoExcept(course_number, resp) ==
    LET r == NoCacheSendRequest(resp, TRUE) IN
    IF r.outcome = "raise" THEN r
    ELSE LET groups == SortedGroups(r.value.d.results) IN
         Return(Flatten([g \in 1..Len(groups) |->
                    Flatten([i \in 1..Len(groups[g].items) |->
                        ItemEntries(groups[g], groups[g].items[i], course_number)])]))

\* get_course_schedule for the answer resp of the upstream.
GetCourseSchedule(course_number, resp) ==
    LET r == NoCacheSendRequest(resp, TRUE) IN
    IF r.outcome = "raise" THEN Return(<<>>)
    ELSE LET groups == SortedGroups(r.value.d.results) IN
         Return(Flatten([g \in 1..Len(groups) |->
                    Flatten([i \in 1..Len(groups[g].items) |->
                        ItemEntries(groups[g], groups[g].items[i], course_number)])]))

\* Schedule summaries the upstream may hold for a meeting.
ScheduleTexts ==
    << <<>>,
       IrregularSentinel,
       <<"01.03.", ":", " ", "10:30", "-", "12:30">>,
       <<"01.03.", ",", " ", "08.03.", ",", " ", "bhtamh", " ", "10:30", "-", "12:30">>,
       <<"ywm", " ", "shny", " ", "10:30", " ", "-", " ", "12:30">>,
       <<"ywm~", " ", "rashw~", " ", "10:30", "-", "12:30">>,
       <<"m", " ", "01.03.", ",", " ", "ywm", " ", "rashwn", " ", "10:30", "-", "12:30",
         ",", " ", "ywm", " ", "shbt", " ", "10:30", "-", "12:30",
         ",", " ", "hkl", " ", "13", " ", "ymym">>,
       <<"ywm", " ", "shyshy", " ", "10:30", "-", "12:30",
         ",", " ", "ywca", " ", "mn", " ", "hkll", ":", " ", "08.03.">>,
       <<"ywm", " ", "shny", " ", "9:30", "-", "12:30">> >>

\* One meeting per summary, with some variety in its other fields.
ItemSample(k) ==
    [ScheduleSummary |-> ScheduleTexts[k],
     CategoryText |-> IF k % 2 = 0 THEN <<"hrcah">> ELSE <<"sport">>,
     Name |-> IF k % 4 = 1 THEN <<"sport", " ", "xynwk", " ", "gwpny", " ", "-", " ", "a">>
              ELSE <<"kdwrgl">>,
     RoomText |-> CASE k % 3 = 0 -> "043-0305" [] k % 3 = 1 -> SeeDetails
                    [] OTHER -> "",
     RoomId |-> "R1",
     building_lookup |-> <<"tawb">>,
     Otjid |-> CASE k % 4 = 3 -> "" [] k % 4 = 2 -> "EV1" [] OTHER -> "70011",
     room_info |-> (<<1, "10:30", "12:30">> :> << <<"awlmn">>, 101 >>),
     Persons |-> IF k % 2 = 0 THEN <<>>
                 ELSE << [Title |-> <<" ", "prwp", " ">>, FirstName |-> "X",
                          LastName |-> "Y"],
                         [Title |-> <<"-">>, FirstName |-> "Z", LastName |-> "W"] >>]

\* The groups of an answer: a group id, a name and at most one meeting.
GroupSamples ==
    [ ZzSeSeqnr : {"0", "2", "11"},
      Name : { <<"SE12", " ", "kdwr">> },
      items : {<<>>} \cup { <<ItemSample(k)>> : k \in DOMAIN ScheduleTexts } ]

\* Answers of the upstream to the schedule query.
ScheduleResponses ==
    { [status |-> 500, chunks |-> 3, payload |-> EmptyResults],
      [status |-> 202, chunks |-> 1, payload |-> EmptyResults] }
        \cup { [status |-> 202, chunks |-> 3, payload |-> [d |-> [results |-> rs]]] :
                  rs \in BoundedSeq(GroupSamples, MaxGroups) }

SchedInit ==
    /\ sched_in \in [course_number : ScheduleCourses, resp : ScheduleResponses]
    /\ sched_out = NoSchedule

\* One get_course_schedule call.
CallGetCourseSchedule ==
    /\ sched_out = NoSchedule
    /\ sched_out' = GetCourseSchedule(sched_in.course_number, sched_in.resp)
    /\ UNCHANGED <<sched_in, pipeVars, cacheVars, buildingVars, mainVars, unitVars>>

InitSchedule == PipeIdle /\ CacheIdle /\ BuildingIdle /\ MainIdle /\ SchedInit /\ UnitIdle

SpecSchedule == InitSchedule /\ [][CallGetCourseSchedule]_vars

\* Answers for the order of the groups: up to MaxOrderGroups groups of ids
\* 0, 1 and 3, each with one weekly meeting.
MaxOrderGroups == 4

OrderGroupSamples ==
    [ ZzSeSeqnr : {"0", "1", "3"},
      Name : { <<"SE12", " ", "kdwr">> },
      items : { <<ItemSample(5)>>, <<ItemSample(8)>> } ]

OrderResponses ==
    { [status |-> 202, chunks |-> 3, payload |-> [d |-> [results |-> rs]]] :
          rs \in BoundedSeq(OrderGroupSamples, MaxOrderGroups) }

SchedOrderInit ==
    /\ sched_in \in [course_number : ScheduleCourses, resp : OrderResponses]
    /\ sched_out = NoSchedule

InitScheduleOrder ==
    PipeIdle /\ CacheIdle /\ BuildingIdle /\ MainIdle /\ SchedOrderInit /\ UnitIdle

SpecScheduleOrder == InitScheduleOrder /\ [][CallGetCourseSchedule]_vars

(***************************************************************************)
(* One record built from a sample entry of d.results.                      *)
(***************************************************************************)
DataInit ==
    /\ data_in \in CourseDataSamples
    /\ data_out = NoData

\* The record of one sample and the snapshot entry save_to_json makes of it.
BuildRecord ==
    /\ data_out = NoData
    /\ LET r == RecordOf(data_in) IN
       data_out' = IF r.outcome = "raise"
                   THEN [kind |-> "raise", message |-> r.value]
                   ELSE [kind |-> "record", course |-> r.value,
                         course_dict |-> CourseDict(r.value)]
    /\ UNCHANGED <<data_in, pipeVars, cacheVars, buildingVars, mainVars, schedVars,
                   parseVars, saveVars>>

InitData ==
    /\ PipeIdle /\ CacheIdle /\ BuildingIdle /\ MainIdle /\ SchedIdle
    /\ DataInit /\ ParseIdle /\ SaveIdle

SpecData == InitData /\ [][BuildRecord]_vars

(***************************************************************************)
(* One _parse_schedule_text call on a sample text.                         *)
(***************************************************************************)
MaxTokens == 2     \* most comma-separated tokens between prefix and suffix

\* Tokens of a schedule text: weekly meetings (plain, with the pointed
\* spellings and spaces around the dash, followed by more text), a day that
\* is not among the alternatives, a time of one digit, the irregular
\* sentinel, a date, and the empty token.
TokenSamples ==
    { <<"ywm", " ", "shny", " ", "10:30", "-", "12:30">>,
      <<"ywm~", " ", "rashw~", " ", "10:30", " ", "-", " ", "12:30">>,
      <<"ywm", " ", "shlyshy", " ", "12:30", "-", "10:30", " ", "xdr">>,
      <<"ywm", " ", "shbt", " ", "10:30", "-", "12:30">>,
      <<"ywm", " ", "shny", " ", "9:30", "-", "12:30">>,
      IrregularSentinel,
      <<"01.03.">>,
      <<>> }

\* The tokens joined with ", ".
RECURSIVE JoinComma(_)
JoinComma(tokens) ==
    IF tokens = <<>> THEN <<>>
    ELSE IF Len(tokens) = 1 THEN tokens[1]
    ELSE tokens[1] \o <<",", " ">> \o JoinComma(Tail(tokens))

\* What the upstream puts before and after the tokens.
TextPrefixes ==
    { <<>>, <<"m", " ", "01.03.", ",", " ">>, <<"'d", " ", "08.03.", ",", " ">>,
      <<"01.03.", " ", "'d", " ", "08.03.", ",", " ">> }

TextSuffixes ==
    { <<>>, <<",", " ", "hkl", " ", "13", " ", "ymym">>,
      <<",", " ", "ywca", " ", "mn", " ", "hkll", ":", " ", "08.03.">>,
      <<",", " ", "ywca", " ", "mn", " ", "hkll", ":", " ", "08.03.",
        ",", " ", "ywm", " ", "shny", " ", "10:30", "-", "12:30">> }

ParseTexts ==
    { pre \o JoinComma(ts) \o suf :
        pre \in TextPrefixes, suf \in TextSuffixes,
        ts \in BoundedSeq(TokenSamples, MaxTokens) }

ParseInit ==
    /\ parse_in \in ParseTexts
    /\ parse_out = NoParse

CallParseScheduleText ==
    /\ parse_out = NoParse
    /\ parse_out' = [kind |-> "return", value |-> ParseScheduleText(parse_in)]
    /\ UNCHANGED <<parse_in, pipeVars, cacheVars, buildingVars, mainVars, schedVars,
                   dataVars, saveVars>>

InitParse ==
    /\ PipeIdle /\ CacheIdle /\ BuildingIdle /\ MainIdle /\ SchedIdle
    /\ DataIdle /\ ParseInit /\ SaveIdle

SpecParse == InitParse /\ [][CallParseScheduleText]_vars

(***************************************************************************)
(* One call of a document-store save function on n records, one step per   *)
(* turn of its loop.  The three functions have the same guard and the same *)
(* batch loop; the document of the i-th record is written i.               *)
(*   save_out.pc        "guard", "loop" or "return"                        *)
(*   save_out.i         the record the loop is at, counted from 1          *)
(*   save_out.batch     the writes of the batch that is not committed yet  *)
(*   save_out.committed the batches committed so far                       *)
(***************************************************************************)
MaxBatches == 2     \* most full batches a call commits

SaveFunctions ==
    { "TechnionCourseFetcher.save_to_firestore",
      "smart_fetcher_fixed.save_to_firestore_university_structure",
      "smart_fetcher.save_to_firestore_university_structure" }

\* Numbers of records around the multiples of the batch limit.
SaveSizes ==
    { k * BatchLimit + d : k \in 0..MaxBatches, d \in {-1, 0, 1} } \cap Nat

SaveInit ==
    /\ save_in \in [function : SaveFunctions, db : {"client", "none"}, n : SaveSizes]
    /\ save_out = [pc |-> "guard", i |-> 0, batch |-> <<>>, committed |-> <<>>]

\* "if not fetcher.db: ... return", else "batch = fetcher.db.batch()".
CheckStore ==
    /\ save_out.pc = "guard"
    /\ save_out' = IF save_in.db = "none"
                   THEN [save_out EXCEPT !.pc = "return"]
                   ELSE [save_out EXCEPT !.pc = "loop", !.i = 1]
    /\ UNCHANGED <<save_in, pipeVars, cacheVars, buildingVars, mainVars, schedVars,
                   dataVars, parseVars>>

\* One turn of the loop: batch.set, and a commit with a new batch when the
\* count is a multiple of the limit.
SetDocument ==
    /\ save_out.pc = "loop"
    /\ save_out.i <= save_in.n
    /\ LET b == Append(save_out.batch, save_out.i) IN
       save_out' = IF CommitsAt(save_out.i)
                   THEN [save_out EXCEPT !.i = @ + 1, !.batch = <<>>,
                                         !.committed = Append(@, b)]
                   ELSE [save_out EXCEPT !.i = @ + 1, !.batch = b]
    /\ UNCHANGED <<save_in, pipeVars, cacheVars, buildingVars, mainVars, schedVars,
                   dataVars, parseVars>>

\* After the loop: the commit of the remaining writes, and the return.
CommitRest ==
    /\ save_out.pc = "loop"
    /\ save_out.i > save_in.n
    /\ save_out' = IF CommitsRest(save_in.n)
                   THEN [save_out EXCEPT !.pc = "return", !.batch = <<>>,
                                         !.committed = Append(@, save_out.batch)]
                   ELSE [save_out EXCEPT !.pc = "return"]
    /\ UNCHANGED <<save_in, pipeVars, cacheVars, buildingVars, mainVars, schedVars,
                   dataVars, parseVars>>

InitSave ==
    /\ PipeIdle /\ CacheIdle /\ BuildingIdle /\ MainIdle /\ SchedIdle
    /\ DataIdle /\ ParseIdle /\ SaveInit

SpecSave == InitSave /\ [][CheckStore \/ SetDocument \/ CommitRest]_vars

(***************************************************************************)
(* One iteration of the course loop with the schedule query of the course: *)
(* get_course_data sends the course query, builds the fields, and then     *)
(* calls get_course_schedule, which sends the schedule query.              *)
(***************************************************************************)
\* The clean course numbers of the model as the digit strings that
\* get_course_schedule matches against the pattern of the sport courses.
CourseNumberText == (<<"1">> :> "02340114") @@ (<<"2">> :> "03940800")

\* Answers to the schedule query of the course: two that make _send_request
\* raise, and those with at most one group.
AttemptScheduleResponses ==
    { [status |-> 500, chunks |-> 3, payload |-> EmptyResults],
      [status |-> 202, chunks |-> 1, payload |-> EmptyResults] }
        \cup { [status |-> 202, chunks |-> 3, payload |-> [d |-> [results |-> rs]]] :
                  rs \in BoundedSeq(GroupSamples, 1) }

\* get_course_data with its get_course_schedule call: the schedule query is
\* sent once the course query and the exam loop have raised nothing.
GetCourseDataWithSchedule(resp, sresp) ==
    LET before == GetCourseData(resp, <<>>) IN
    IF before.outcome = "raise" THEN before
    ELSE LET schedule == GetCourseSchedule(
                             CourseNumberText[before.value.course_number], sresp)
         IN  IF schedule.outcome = "raise" THEN schedule
             ELSE GetCourseData(resp, schedule.value)

\* The loop has the listing of one course and is about to attempt it.
AttemptInit ==
    /\ pc = "loop"
    /\ db = "client"
    /\ output_dir \in Dirs
    /\ files = [d \in Dirs |-> NoFile]
    /\ prev_run_file = NoFile
    /\ store_docs = EmptyDict
    /\ course_numbers \in { <<x>> : x \in Otjids }
    /\ courses = <<>>
    /\ failed_courses = <<>>
    /\ events = <<>>
    /\ metadata = NoDocument
    /\ committed = <<>>
    /\ last_attempt = NoAttempt

\* The iteration of the course loop, with both answers of the upstream.
FetchCourseWithSchedule ==
    /\ pc = "loop" /\ Len(Attempts) < Len(course_numbers)
    /\ LET course_number == course_numbers[Len(Attempts) + 1]
           st == [courses |-> courses, failed_courses |-> failed_courses,
                  events |-> events, pc |-> pc]
       IN  \E resp \in CourseResponses(course_number),
              sresp \in AttemptScheduleResponses :
              LET r  == GetCourseDataWithSchedule(resp, sresp)
                  nx == IF r.outcome = "return"
                        THEN TryBody(st, course_number, r.value)
                        ELSE ExceptClause(st, course_number)
                  sent == GetCourseData(resp, <<>>).outcome = "return"
              IN  /\ courses' = nx.courses
                  /\ failed_courses' = nx.failed_courses
                  /\ events' = nx.events
                  /\ pc' = nx.pc
                  /\ last_attempt' =
                        [id |-> course_number,
                         n_results |-> ResultCount(resp),
                         outcome |-> r.outcome,
                         schedule_resp |-> IF sent THEN sresp
                                           ELSE [kind |-> "not sent"]]
    /\ UNCHANGED <<db, output_dir, files, prev_run_file, course_numbers, metadata,
                   committed, store_docs, cacheVars, otherVars>>

InitAttempt ==
    AttemptInit /\ CacheIdle /\ BuildingIdle /\ MainIdle /\ SchedIdle /\ UnitIdle

SpecAttempt == InitAttempt /\ [][FetchCourseWithSchedule \/ FinishFetch]_vars

(***************************************************************************)
(* main of smart_fetcher_fixed (smart_fetcher.main has the same loop and   *)
(* the same exit statuses): the terms of a run, one iteration per term,    *)
(* the summary.                                                            *)
(***************************************************************************)
\* get_current_semester, for now.year and now.month.
GetCurrentSemester(year, month) ==
    IF month >= 10 \/ month <= 2 THEN [year |-> year, semester |-> 200]
    ELSE IF month >= 3 /\ month <= 7 THEN [year |-> year, semester |-> 201]
    ELSE [year |-> year, semester |-> 202]

\* get_next_semester
GetNextSemester(term) ==
    IF term.semester = 200 THEN [year |-> term.year, semester |-> 201]
    ELSE IF term.semester = 201 THEN [year |-> term.year, semester |-> 202]
    ELSE [year |-> term.year + 1, semester |-> 200]

\* "Determine semesters to fetch".  An argument that was not given is 0
\* (it is tested for truth only).
SemestersToFetch(env) ==
    IF env.force_year # 0 /\ env.force_semester # 0
    THEN << [year |-> env.force_year, semester |-> env.force_semester] >>
    ELSE LET current == GetCurrentSemester(env.year, env.month) IN
         IF env.current_only THEN <<current>>
         ELSE <<current, GetNextSemester(current)>>

\* The arguments, the clock and fetcher.db of a run.
MainEnvs ==
    [ year : {2025}, month : 1..12, current_only : BOOLEAN,
      force_year : {0, 2024}, force_semester : {0, 201, 203},
      db : {"client", "none"} ]

\* The keys of the semester_name dict of the loop.
SemesterNames == {200, 201, 202}

\* A summary that exits with 1 whenever a term failed.
ExitStatusOneOnAnyFailure(successful, failed) ==
    IF failed > 0 THEN 1 ELSE 0

\* The summary: the status main exits with, branch by branch.
ExitStatus(successful, failed) ==
    IF failed > 0 /\ successful = 0 THEN 1
    ELSE IF failed > 0 THEN 0
    ELSE 0

MainInit ==
    /\ main_pc = "start"
    /\ main_env \in MainEnvs
    /\ semesters_to_fetch = <<>>
    /\ term_log = <<>>
    /\ successful_fetches = 0
    /\ failed_fetches = 0
    /\ exit_status = -1

\* "if not fetcher.db: sys.exit(1)"
MainNoFirestore ==
    /\ main_pc = "start" /\ main_env.db = "none"
    /\ main_pc' = "no firestore"
    /\ exit_status' = 1
    /\ UNCHANGED <<main_env, semesters_to_fetch, term_log, successful_fetches,
                   failed_fetches, pipeVars, cacheVars, buildingVars, schedVars, unitVars>>

\* setup_university_metadata and the choice of the terms.  The metadata
\* write is not inside a try block: an exception of it ends the process.
MainSetup ==
    /\ main_pc = "start" /\ main_env.db = "client"
    /\ \E setup_ok \in BOOLEAN :
          IF setup_ok
          THEN /\ main_pc' = "loop"
               /\ semesters_to_fetch' = SemestersToFetch(main_env)
               /\ UNCHANGED exit_status
          ELSE /\ main_pc' = "crashed"
               /\ exit_status' = 1
               /\ UNCHANGED semesters_to_fetch
    /\ UNCHANGED <<main_env, term_log, successful_fetches, failed_fetches,
                   pipeVars, cacheVars, buildingVars, schedVars, unitVars>>

\* One iteration of "for year, semester in semesters_to_fetch".  The
\* semester_name lookup comes before the try block: a semester code that is
\* not a key of the dict raises KeyError out of main.
RunTerm ==
    /\ main_pc = "loop" /\ Len(term_log) < Len(semesters_to_fetch)
    /\ LET term == semesters_to_fetch[Len(term_log) + 1] IN
       IF term.semester \notin SemesterNames
       THEN /\ term_log' = Append(term_log, [term |-> term, outcome |-> "KeyError"])
            /\ main_pc' = "crashed"
            /\ exit_status' = 1
            /\ UNCHANGED <<successful_fetches, failed_fetches>>
       ELSE \E outcome \in TermOutcomes :
               LET nx == Iteration(outcome, successful_fetches, failed_fetches) IN
               /\ term_log' = Append(term_log, [term |-> term, outcome |-> outcome])
               /\ successful_fetches' = nx.successful
               /\ failed_fetches' = nx.failed
               /\ main_pc' = nx.pc
               /\ exit_status' = IF nx.pc = "crashed" THEN 1 ELSE exit_status
    /\ UNCHANGED <<main_env, semesters_to_fetch, pipeVars, cacheVars, buildingVars, schedVars, unitVars>>

\* The summary after the loop.
MainSummary ==
    /\ main_pc = "loop" /\ Len(term_log) = Len(semesters_to_fetch)
    /\ main_pc' = "done"
    /\ exit_status' = ExitStatus(successful_fetches, failed_fetches)
    /\ UNCHANGED <<main_env, semesters_to_fetch, term_log, successful_fetches,
                   failed_fetches, pipeVars, cacheVars, buildingVars, schedVars, unitVars>>

MainNext == MainNoFirestore \/ MainSetup \/ RunTerm \/ MainSummary

InitMain == PipeIdle /\ CacheIdle /\ BuildingIdle /\ MainInit /\ SchedIdle /\ UnitIdle

SpecMain == InitMain /\ [][MainNext]_vars

(***************************************************************************)
(* Properties of the course loop (Spec).                                   *)
(***************************************************************************)
AttemptedIds == [k \in 1..Len(Attempts) |-> Attempts[k].id]

\* The outcome of each attempt, in order.
Outcomes == SelectSeq(events, LAMBDA e : e.kind \in {"append", "fail"})

FetchEnded    == pc \in {"fetched", "skipped", "saved", "term_failed"}
FetchReturned == pc \in {"fetched", "skipped", "saved"}

\* The identifiers of the listing whose attempt had outcome kind, in order.
RECURSIVE IdsWithOutcome(_, _)
IdsWithOutcome(kind, n) ==
    IF n = 0 THEN <<>>
    ELSE IF Outcomes[n].kind = kind
         THEN Append(IdsWithOutcome(kind, n - 1), course_numbers[n])
         ELSE IdsWithOutcome(kind, n - 1)

\* C1: at every moment the identifiers attempted so far are a prefix of the
\* listing, each attempted once and in list order, and fetch_semester_courses
\* never ends before every identifier of the listing was attempted, whatever
\* attempts raised.
C1_EveryCourseAttemptedInOrder ==
    /\ Len(Attempts) <= Len(course_numbers)
    /\ AttemptedIds = SubSeq(course_numbers, 1, Len(Attempts))
    /\ FetchEnded => AttemptedIds = course_numbers

\* A finished fetch whose first attempt raised and which went on to the rest.
C1_Witness ==
    /\ pc = "fetched"
    /\ Len(course_numbers) >= 2
    /\ Outcomes[1].kind = "fail"
    /\ Len(Attempts) = Len(course_numbers)

Persisted == Flatten(committed)

\* What a snapshot file says about course number n: the items of that number,
\* and the schedule of the last of them.
SnapshotItems(file, n) ==
    IF file.kind = "json"
    THEN { k \in 1..Len(file.data) : file.data[k].general.number = n }
    ELSE {}

SnapshotHas(file, n) == SnapshotItems(file, n) # {}

SnapshotSchedule(file, n) ==
    LET ks == SnapshotItems(file, n)
    IN  file.data[CHOOSE k \in ks : \A j \in ks : j <= k].schedule

Entries(schedule) == { schedule[k] : k \in 1..Len(schedule) }

\* The snapshot file save_to_firestore_university_structure loads in main.
LoadedSnapshot == files["./data"]

\* C3 (as claimed): after a full run for a term, every course whose fetched
\* schedule is empty while the snapshot file the previous run left in the
\* output directory holds a non-empty schedule for it is written to the
\* document store with the previous run's schedule.
C3_PreviousScheduleSurvivesFullRun ==
    pc = "saved" =>
        \A k \in 1..Len(courses) :
            LET n == courses[k].course_number IN
            (/\ courses[k].schedule = <<>>
             /\ SnapshotHas(prev_run_file, n)
             /\ SnapshotSchedule(prev_run_file, n) # <<>>)
                => /\ k <= Len(Persisted)
                   /\ Persisted[k].data.schedule = SnapshotSchedule(prev_run_file, n)

\* C4: a record with an empty fetched schedule whose course number has a
\* non-empty schedule in the snapshot the function loaded is written with
\* the snapshot's schedule.
C4_EmptyScheduleTakesSnapshot ==
    pc = "saved" =>
        /\ Len(Persisted) = Len(courses)
        /\ \A k \in 1..Len(courses) :
              LET n == courses[k].course_number IN
              (/\ courses[k].schedule = <<>>
               /\ SnapshotHas(LoadedSnapshot, n)
               /\ SnapshotSchedule(LoadedSnapshot, n) # <<>>)
                  => Persisted[k].data.schedule = SnapshotSchedule(LoadedSnapshot, n)

\* A saved record whose empty schedule met a non-empty snapshot schedule.
C4_Witness ==
    /\ pc = "saved"
    /\ \E k \in 1..Len(courses) :
          /\ courses[k].schedule = <<>>
          /\ SnapshotHas(LoadedSnapshot, courses[k].course_number)
          /\ SnapshotSchedule(LoadedSnapshot, courses[k].course_number) # <<>>

\* C5: a record with a non-empty fetched schedule is written with exactly
\* that schedule, whatever the snapshot holds for its course number.
C5_NonEmptyScheduleKept ==
    pc = "saved" =>
        /\ Len(Persisted) = Len(courses)
        /\ \A k \in 1..Len(courses) :
              courses[k].schedule # <<>>
                  => Persisted[k].data.schedule = courses[k].schedule

\* A saved record with a non-empty fetched schedule whose course number has
\* another non-empty schedule in the snapshot.
C5_Witness ==
    /\ pc = "saved"
    /\ \E k \in 1..Len(courses) :
          /\ courses[k].schedule # <<>>
          /\ SnapshotHas(LoadedSnapshot, courses[k].course_number)
          /\ SnapshotSchedule(LoadedSnapshot, courses[k].course_number)
                \notin {<<>>, courses[k].schedule}

\* C6: a record with an empty fetched schedule whose course number is not in
\* the snapshot (or whose snapshot file is absent or unreadable) is written
\* with an empty schedule, and every entry of a written schedule is an entry
\* of that course's fetched schedule or of a snapshot item of the same
\* course number.
C6_NoFabricatedSchedule ==
    pc = "saved" =>
        /\ Len(Persisted) = Len(courses)
        /\ \A k \in 1..Len(courses) :
              LET n == courses[k].course_number
                  fromSnapshot ==
                      UNION { Entries(LoadedSnapshot.data[j].schedule) :
                                j \in SnapshotItems(LoadedSnapshot, n) }
              IN  /\ (courses[k].schedule = <<>> /\ ~SnapshotHas(LoadedSnapshot, n))
                        => Persisted[k].data.schedule = <<>>
                  /\ Entries(Persisted[k].data.schedule)
                        \subseteq Entries(courses[k].schedule) \cup fromSnapshot

\* A saved record with an empty fetched schedule and no snapshot item, while
\* the snapshot holds a non-empty schedule of another course.
C6_Witness ==
    /\ pc = "saved"
    /\ LoadedSnapshot.kind = "json"
    /\ \E k \in 1..Len(courses) :
          /\ courses[k].schedule = <<>>
          /\ ~SnapshotHas(LoadedSnapshot, courses[k].course_number)
          /\ \E j \in 1..Len(LoadedSnapshot.data) :
                LoadedSnapshot.data[j].schedule # <<>>

\* The keys general always has, and the optional ones.
BaseKeys == {"number", "name", "syllabus", "faculty", "academic_level",
             "points", "responsible", "notes"}

OptionalKeys == {"prerequisites", "adjoining_courses", "no_additional_credit"}

\* C7: the documents written are one per fetched record, in the order of the
\* records; each has the record's course number as its id and, in general,
\* the fetched value of every field (an empty optional field or exam date
\* has no key), also when its schedule came from the snapshot.
C7_OnlyScheduleReconciled ==
    pc = "saved" =>
        /\ Len(Persisted) = Len(courses)
        /\ \A k \in 1..Len(courses) :
              LET c == courses[k]
                  g == Persisted[k].data.general
                  exams == { e \in DOMAIN c.exams : c.exams[e] # <<>> }
              IN  /\ Persisted[k].id = c.course_number
                  /\ DOMAIN g = BaseKeys \cup { f \in OptionalKeys : c[f] # "" }
                                         \cup exams
                  /\ g["number"] = c.course_number
                  /\ \A f \in (DOMAIN g) \ ({"number"} \cup exams) : g[f] = c[f]
                  /\ \A e \in exams : g[e] = c.exams[e]

\* A saved record whose schedule came from the snapshot and whose other
\* fields differ from the snapshot's.
C7_Witness ==
    /\ pc = "saved"
    /\ \E k \in 1..Len(courses) :
          /\ Persisted[k].data.schedule # courses[k].schedule
          /\ \E j \in SnapshotItems(LoadedSnapshot, courses[k].course_number) :
                LoadedSnapshot.data[j].general # Persisted[k].data.general
          /\ courses[k].exams # EmptyDict

(***************************************************************************)
(* Properties of _send_request (SpecCache).                                *)
(***************************************************************************)
CacheConfigured == cache_dir # None

\* C8: with a cache directory configured, a call that read its result from
\* the cache made no HTTP call; and when a call returned, the next call with
\* the same query makes no HTTP call and returns an equal value, so that the
\* two calls made one HTTP call in all if the first found no cache entry.
C8_SecondCallServedFromCache ==
    CacheConfigured =>
        /\ (last_call # NoCall /\ last_call.cache_read) => last_call.upstream = 0
        /\ (/\ prev_call # NoCall
            /\ prev_call.result.outcome = "return"
            /\ last_call.query = prev_call.query)
              => /\ last_call.upstream = 0
                 /\ last_call.result = prev_call.result
                 /\ ~prev_call.cache_read
                       => prev_call.upstream + last_call.upstream = 1

\* Two calls with one query: the first fetched a non-empty payload from the
\* upstream, the second read it from the cache.
C8_Witness ==
    /\ CacheConfigured
    /\ prev_call # NoCall
    /\ last_call.query = prev_call.query
    /\ prev_call.upstream = 1
    /\ prev_call.result.outcome = "return"
    /\ last_call.cache_read
    /\ prev_call.result.value # EmptyResults

\* C9: a NoCacheTechnionCourseFetcher has no cache directory whatever
\* argument it was given; a fetcher without a cache directory makes an HTTP
\* call in every _send_request, reads and writes no cache file, and leaves
\* the cache directory as it is.
C9_NoCacheMeansLive ==
    /\ [](fetcher_class = "NoCacheTechnionCourseFetcher" => cache_dir = None)
    /\ []((cache_dir = None /\ last_call # NoCall)
            => /\ last_call.upstream = 1
               /\ ~last_call.cache_read
               /\ ~last_call.cache_write)
    /\ [][cache_dir = None => cache_files' = cache_files]_vars

\* A NoCacheTechnionCourseFetcher given a cache directory, after two calls
\* for a query of which an earlier process left a cache file.
C9_Witness ==
    /\ fetcher_class = "NoCacheTechnionCourseFetcher"
    /\ ctor_cache_dir # None
    /\ prev_call # NoCall
    /\ last_call.query = prev_call.query
    /\ GetCacheFile(last_call.query) \in DOMAIN cache_files
    /\ last_call.result.outcome = "return"
    /\ JsonLoad(cache_files[GetCacheFile(last_call.query)]) # last_call.result.value

\* C10 (as claimed): a call with allow_empty false never returns the
\* canonical empty-results payload, whatever earlier calls left in the cache.
C10_NeverReturnsEmptyShape ==
    (/\ last_call # NoCall
     /\ ~last_call.allow_empty
     /\ last_call.result.outcome = "return")
        => last_call.result.value # EmptyResults

(***************************************************************************)
(* Properties of get_building_name (SpecBuilding).                         *)
(***************************************************************************)
\* C11: within one process get_building_name issues at most one upstream
\* query per key (year, semester, room_id), whatever the class of the
\* fetcher and its cache directory, and none for an empty room_id.
C11_AtMostOneQueryPerKey ==
    \A key \in DOMAIN building_queries :
        /\ building_queries[key] <= 1
        /\ key.room_id = "" => building_queries[key] = 0

\* A repeated call of a key that was queried once, with the response
\* cache disabled.
C11_Witness ==
    /\ last_building # NoBuildingCall
    /\ last_building.memo_hit
    /\ last_building.key.room_id # ""
    /\ cache_dir = None
    /\ building_queries[last_building.key] = 1

\* The cases in which an execution of the body has no building to return.
NoBuildingCase(call) ==
    \/ call.key.room_id = ""
    \/ call.lookup.outcome = "raise"
    \/ "Building" \notin DOMAIN call.lookup.value.d
    \/ call.lookup.value.d.Building = <<>>

\* A name without whitespace at its ends and with single spaces inside.
IsNormalized(name) ==
    /\ \A k \in 1..Len(name) : name[k] # "\t"
    /\ name # <<>> => name[1] # " " /\ name[Len(name)] # " "
    /\ \A k \in 1..(Len(name) - 1) : ~(name[k] = " " /\ name[k + 1] = " ")

\* C12: get_building_name never raises; it returns the empty string for
\* an empty room_id, a lookup that raised, a response without the building
\* field and an empty building value, and the normalized name otherwise.
C12_NeverRaisesEmptyOnFailure ==
    last_building # NoBuildingCall =>
        /\ last_building.result.outcome = "return"
        /\ ~last_building.memo_hit =>
              IF NoBuildingCase(last_building)
              THEN last_building.result.value = <<>>
              ELSE /\ last_building.result.value =
                         NormalizeBuilding(last_building.lookup.value.d.Building)
                   /\ IsNormalized(last_building.result.value)

\* A call whose lookup raised and which returned the empty string.
C12_Witness ==
    /\ last_building # NoBuildingCall
    /\ ~last_building.memo_hit
    /\ last_building.key.room_id # ""
    /\ last_building.lookup.outcome = "raise"
    /\ last_building.result = Return(<<>>)

(***************************************************************************)
(* Properties of get_course_data and of what a term persists (Spec).       *)
(***************************************************************************)
\* C13: get_course_data returns a record only when the course query had
\* exactly one result; with none or several it raises, the loop records
\* the identifier as failed, appends no record for it and goes on.
C13_RecordOnlyForOneResult ==
    last_attempt # NoAttempt =>
        /\ last_attempt.outcome = "return" => last_attempt.n_results = 1
        /\ (last_attempt.n_results >= 0 /\ last_attempt.n_results # 1) =>
              /\ last_attempt.outcome = "raise"
              /\ failed_courses # <<>>
              /\ failed_courses[Len(failed_courses)] = last_attempt.id
              /\ Len(events) >= 2
              /\ events[Len(events) - 1] = Event("attempt", last_attempt.id)
              /\ events[Len(events)] = Event("fail", last_attempt.id)
              /\ Len(courses) + Len(failed_courses) = Len(Attempts)
              /\ pc # "term_failed"

\* A course query answered with two results, with an identifier of the
\* listing still to come.
C13_Witness ==
    /\ last_attempt # NoAttempt
    /\ last_attempt.n_results = 2
    /\ last_attempt.outcome = "raise"
    /\ pc = "loop"
    /\ Len(Attempts) < Len(course_numbers)

\* C14: get_course_data fails only for a transport failure of the course
\* query (no payload decoded) or a result cardinality other than one.
C14_FailsOnlyOnTransportOrCardinality ==
    (last_attempt # NoAttempt /\ last_attempt.outcome = "raise") =>
        last_attempt.n_results # 1

\* The course numbers of the records of the latest fetch.
FetchedNumbers == { courses[k].course_number : k \in DOMAIN courses }

\* C15: after a term was fetched and persisted, the snapshot file and the
\* collection of the term hold exactly the records of that fetch.
C15_PersistedSetIsLatestFetch ==
    pc = "saved" =>
        /\ files[output_dir].kind = "json"
        /\ { files[output_dir].data[k].general.number :
               k \in DOMAIN files[output_dir].data } = FetchedNumbers
        /\ DOMAIN store_docs = FetchedNumbers

\* The records have distinct non-empty course numbers.
DistinctNumbers(cs) ==
    /\ \A k \in DOMAIN cs : cs[k].course_number # <<>>
    /\ \A i, j \in DOMAIN cs : i # j => cs[i].course_number # cs[j].course_number

\* C16: for records with distinct non-empty course numbers, the snapshot
\* written by save_to_json is read back by the loader of
\* save_to_firestore_university_structure as course_number -> schedule of
\* the record, and by CourseObj with the record's course_number, schedule
\* and exam entries.
C16_SnapshotRoundTrip ==
    (pc \in {"fetched", "skipped", "saved"} /\ DistinctNumbers(courses)) =>
        LET file == files[output_dir] IN
        /\ file.kind = "json"
        /\ Len(file.data) = Len(courses)
        /\ DOMAIN LoadExistingSchedules(file) = FetchedNumbers
        /\ \A k \in DOMAIN courses :
              /\ LoadExistingSchedules(file)[courses[k].course_number]
                     = courses[k].schedule
              /\ CourseObj(file.data[k]).course_number = courses[k].course_number
              /\ CourseObj(file.data[k]).schedule = courses[k].schedule
              /\ CourseObj(file.data[k]).exams = courses[k].exams

\* Two records with different numbers written, one with an exam and a
\* schedule.
C16_Witness ==
    /\ pc = "fetched"
    /\ Len(courses) = 2
    /\ DistinctNumbers(courses)
    /\ \E k \in DOMAIN courses :
          courses[k].exams # EmptyDict /\ courses[k].schedule # <<>>

\* C17: no two records returned by fetch_semester_courses for a term have
\* the same course_number.
C17_NoTwoRecordsShareNumber ==
    \A i, j \in DOMAIN courses :
        i # j => courses[i].course_number # courses[j].course_number

(***************************************************************************)
(* Properties of the term loop (SpecMain).                                 *)
(***************************************************************************)
\* The iterations whose try block ended with an exception, and those that
\* saved their term.
RaisedTerms ==
    { k \in DOMAIN term_log : term_log[k].outcome \in {"fetch raised", "save raised"} }
SavedTerms == { k \in DOMAIN term_log : term_log[k].outcome = "saved" }

\* The outcome of a run that ended with s saved and f failed terms.
RunOutcome(s, f) ==
    IF f > 0 /\ s = 0 THEN "all failed"
    ELSE IF f > 0 THEN "some failed"
    ELSE "all succeeded"

\* C18, as the specification states it: the exit status of a run tells its
\* outcome, so the status of this run is not the status main gives to a
\* run of another outcome.
C18_ThreeOutcomesThreeStatuses ==
    main_pc = "done" =>
        \A s, f \in 0..2 :
            RunOutcome(s, f)
                # RunOutcome(Cardinality(SavedTerms), Cardinality(RaisedTerms))
            => ExitStatus(s, f) # exit_status

\* C18, as the code has it: a run that reaches the summary exits with 1
\* when at least one term failed and none was saved, and with 0 otherwise.
C18_ExitOneIffAllFailed ==
    main_pc = "done" =>
        /\ exit_status \in {0, 1}
        /\ exit_status = 1 <=> (RaisedTerms # {} /\ SavedTerms = {})

\* A run with one failed and one saved term that exited with 0.
C18_Witness ==
    /\ main_pc = "done"
    /\ RaisedTerms # {}
    /\ SavedTerms # {}
    /\ exit_status = 0

\* C19: an exception of a term's fetch or save is counted as one failed
\* term and the loop goes on: the iterations done are the first terms of
\* semesters_to_fetch in order, failed_fetches counts the iterations that
\* raised, main never ends on such an exception and reaches the summary
\* only when every term was attempted.
C19_TermFailureIsolated ==
    /\ Len(term_log) <= Len(semesters_to_fetch)
    /\ \A k \in DOMAIN term_log : term_log[k].term = semesters_to_fetch[k]
    /\ failed_fetches = Cardinality(RaisedTerms)
    /\ main_pc = "done" => Len(term_log) = Len(semesters_to_fetch)
    /\ (main_pc = "crashed" /\ term_log # <<>>) =>
           term_log[Len(term_log)].outcome = "KeyError"

\* A run of two terms whose first term raised and whose second term was
\* attempted.
C19_Witness ==
    /\ Len(semesters_to_fetch) = 2
    /\ Len(term_log) = 2
    /\ 1 \in RaisedTerms
    /\ failed_fetches >= 1

(***************************************************************************)
(* Properties of get_course_schedule (SpecSchedule).                       *)
(***************************************************************************)
CanonicalDays == {"rashwn", "shny", "shlyshy", "rby'y", "xmyshy", "shyshy"}

\* The meetings of the answer, in any order.
AnsweredItems ==
    IF sched_in.resp.status # 202 \/ sched_in.resp.chunks # 3 THEN {}
    ELSE UNION { { g.items[i] : i \in DOMAIN g.items } :
                   g \in { sched_in.resp.payload.d.results[k] :
                             k \in DOMAIN sched_in.resp.payload.d.results } }

\* A summary that is empty, the irregular sentinel or a date literal.
NoEntrySummary(text) ==
    \/ text = <<>>
    \/ text = <<"la~", " ", "sdyr~">>
    \/ (Len(text) >= 2 /\ text[1] \in DateTokens /\ text[2] \in {":", ","})

\* The answer of the upstream without the meetings of such a summary.
WithoutNoEntryItems ==
    LET rs == sched_in.resp.payload.d.results
        kept(g) == SelectSeq(g.items, LAMBDA it : ~NoEntrySummary(it.ScheduleSummary))
    IN  [sched_in.resp EXCEPT !.payload.d.results =
            [k \in DOMAIN rs |-> [rs[k] EXCEPT !.items = kept(rs[k])]]]

\* C20: every entry of a schedule built by get_course_schedule has one of
\* the six canonical day names, the pointed first-day spelling being stored
\* as the canonical one, and a meeting whose summary is empty, the
\* irregular sentinel or a date literal contributes no entry: the schedule
\* is the one built from the answer without these meetings.
C20_CanonicalDaysAndSkippedRows ==
    sched_out # NoSchedule =>
        /\ sched_out.outcome = "return"
        /\ \A k \in DOMAIN sched_out.value : sched_out.value[k].day \in CanonicalDays
        /\ (\A item \in AnsweredItems : NoEntrySummary(item.ScheduleSummary))
               => sched_out.value = <<>>
        /\ sched_out = GetCourseSchedule(sched_in.course_number, WithoutNoEntryItems)

\* An answer with a meeting in the pointed spelling and a meeting with the
\* irregular sentinel, whose schedule is the one entry of the former.
C20_Witness ==
    /\ sched_out # NoSchedule
    /\ \E item \in AnsweredItems :
          item.ScheduleSummary = <<"ywm~", " ", "rashw~", " ", "10:30", "-", "12:30">>
    /\ \E item \in AnsweredItems : item.ScheduleSummary = <<"la~", " ", "sdyr~">>
    /\ Len(sched_out.value) = 1
    /\ sched_out.value[1].day = "rashwn"

(***************************************************************************)
(* Properties of the points and the exams of a record (SpecData).          *)
(***************************************************************************)
ExamLabels == {"moed_a", "moed_b", "boxan_moed_a", "boxan_moed_b"}

\* The entries of the upstream's exam list that have the kind of label l and
\* a date.
DatedExams(l) ==
    { i \in DOMAIN data_in.Exams :
        /\ data_in.Exams[i].CategoryCode \in {"FI", "FB", "MI", "M2"}
        /\ ExamMapping[data_in.Exams[i].CategoryCode] = l
        /\ data_in.Exams[i].ExamDate # "" }

Midnight == "PT00H00M00S"

\* C21: in a record built by get_course_data and in the entry save_to_json
\* writes for it, the exam keys are among the four exam-kind labels, an exam
\* key is present only for a kind the upstream lists with a date and then
\* its value is not empty, and the value has a time part only when the
\* begin and end times of that exam are not both midnight.
C21_ExamKeysValuesAndTimes ==
    data_out.kind = "record" =>
        LET exams == data_out.course.exams
            general == data_out.course_dict.general
        IN  /\ DOMAIN exams \subseteq ExamLabels
            /\ DOMAIN general \subseteq BaseKeys \cup OptionalKeys \cup ExamLabels
            /\ \A l \in ExamLabels :
                 /\ l \in DOMAIN exams <=> DatedExams(l) # {}
                 /\ l \in DOMAIN general <=> l \in DOMAIN exams
                 /\ l \in DOMAIN exams =>
                      LET i == CHOOSE i \in DatedExams(l) :
                                   \A j \in DatedExams(l) : j <= i
                          e == data_in.Exams[i]
                      IN  /\ general[l] = exams[l]
                          /\ exams[l] # <<>>
                          /\ exams[l][1] = "01-02-2025"
                          /\ Len(exams[l]) \in {1, 5}
                          /\ Len(exams[l]) = 5 =>
                               ~(e.ExamBegTime = Midnight /\ e.ExamEndTime = Midnight)

\* A record of an exam at midnight times and an exam without a date.
C21_Witness ==
    /\ data_out.kind = "record"
    /\ Len(data_in.Exams) = 2
    /\ data_in.Exams[1].CategoryCode = "FI"
    /\ data_in.Exams[1].ExamBegTime = Midnight
    /\ data_in.Exams[1].ExamEndTime = Midnight
    /\ data_in.Exams[2].CategoryCode = "FB"
    /\ data_in.Exams[2].ExamDate = ""
    /\ DOMAIN data_out.course.exams = {"moed_a"}
    /\ data_out.course_dict.general["moed_a"] = <<"01-02-2025">>

(***************************************************************************)
(* Properties of the order of the groups (SpecScheduleOrder).              *)
(***************************************************************************)
\* The group ids of the upstream's answer, and of the returned schedule.
AnsweredIds ==
    [k \in DOMAIN sched_in.resp.payload.d.results |->
        SeqNumbers[sched_in.resp.payload.d.results[k].ZzSeSeqnr]]

ReturnedIds == [k \in DOMAIN sched_out.value |-> sched_out.value[k].group]

\* What the call returns for the groups of id n alone, in the order the
\* upstream sent them.
ScheduleOfId(n) ==
    GetCourseSchedule(sched_in.course_number,
        [sched_in.resp EXCEPT !.payload.d.results =
            SelectSeq(@, LAMBDA g : SeqNumbers[g.ZzSeSeqnr] = n)]).value

\* C22: the groups are processed by ascending id with the groups of id 0
\* last, groups of equal id in the order of the answer: the schedule is that
\* of the groups of id 1, then of id 3, then of id 0; in it no entry of
\* group 0 precedes an entry of another group and the other ids do not
\* decrease; and ids [3,0,1,0] are processed as [1,3,0,0].
C22_GroupsAscendingZeroLastStable ==
    sched_out # NoSchedule =>
        /\ sched_out.value = ScheduleOfId(1) \o ScheduleOfId(3) \o ScheduleOfId(0)
        /\ \A i, j \in DOMAIN ReturnedIds :
             i < j => /\ ReturnedIds[i] = 0 => ReturnedIds[j] = 0
                      /\ ReturnedIds[j] # 0 => ReturnedIds[i] <= ReturnedIds[j]
        /\ AnsweredIds = <<3, 0, 1, 0>> => ReturnedIds = <<1, 3, 0, 0>>

\* Ids [3,0,1,0] with different meetings in the two groups of id 0: the
\* schedule has the groups as [1,3,0,0], the two last in the order sent.
C22_Witness ==
    /\ sched_out # NoSchedule
    /\ AnsweredIds = <<3, 0, 1, 0>>
    /\ sched_in.resp.payload.d.results[2].items[1].ScheduleSummary = ScheduleTexts[5]
    /\ sched_in.resp.payload.d.results[4].items[1].ScheduleSummary = ScheduleTexts[8]
    /\ ReturnedIds = <<1, 3, 0, 0>>
    /\ sched_out.value[3].day = "shny"
    /\ sched_out.value[4].day = "shyshy"

(***************************************************************************)
(* Properties of _parse_schedule_text (SpecParse).                         *)
(***************************************************************************)
\* The tokens the function looks at: the pieces between the commas of the
\* text without its prefix and suffix, stripped.
LookedAtTokens ==
    LET pieces == SplitComma(CleanScheduleText(parse_in), <<>>, <<>>)
    IN  [k \in DOMAIN pieces |-> Strip(pieces[k])]

\* The number of commas of the text as the upstream sent it.
Commas == Cardinality({ i \in DOMAIN parse_in : parse_in[i] = "," })

\* tok starts with "day-word day HH:MM - HH:MM", the times being t1 and t2.
IsWeekly(tok, t1, t2) ==
    /\ Len(tok) >= 7
    /\ tok[1] \in {"ywm", "ywm~"} /\ tok[2] = " " /\ tok[4] = " "
    /\ tok[3] \in CanonicalDays \cup {"rashw~"}
    /\ tok[5] = t1 /\ t1 \in TimeTokens /\ t2 \in TimeTokens
    /\ \E i \in 6..Len(tok) : \E j \in (i + 1)..Len(tok) :
          /\ tok[i] = "-" /\ tok[j] = t2
          /\ \A k \in (6..(i - 1)) \cup ((i + 1)..(j - 1)) : tok[k] = " "

WeeklyTokens ==
    SelectSeq(LookedAtTokens,
              LAMBDA tok : \E t1, t2 \in TimeTokens : IsWeekly(tok, t1, t2))

TwoWeekly ==
    <<"ywm", " ", "shny", " ", "10:30", "-", "12:30", ",", " ",
      "ywm~", " ", "rashw~", " ", "10:30", " ", "-", " ", "12:30">>

\* C23: the result has one triple for each token that matches the weekly
\* pattern, in the order of the tokens, with the canonical name of the
\* token's day and the two times of the token, and nothing for another
\* token; so it is never longer than the number of tokens, a text of two
\* weekly tokens gives two triples with its times, and a text without a
\* weekly token, such as the irregular sentinel, gives none.
C23_OneTriplePerWeeklyToken ==
    parse_out # NoParse =>
        LET out == parse_out.value IN
        /\ Len(out) = Len(WeeklyTokens)
        /\ \A k \in DOMAIN out :
             /\ IsWeekly(WeeklyTokens[k], out[k][2], out[k][3])
             /\ out[k][1] \in CanonicalDays
             /\ out[k][1] = IF WeeklyTokens[k][3] = "rashw~" THEN "rashwn"
                            ELSE WeeklyTokens[k][3]
        /\ Len(out) <= Len(LookedAtTokens)
        /\ Len(out) <= Commas + 1
        /\ parse_in = TwoWeekly =>
             out = << <<"shny", "10:30", "12:30">>, <<"rashwn", "10:30", "12:30">> >>
        /\ parse_in = IrregularSentinel => out = <<>>

\* The text of two weekly tokens has been parsed into its two triples.
C23_Witness ==
    /\ parse_in = TwoWeekly
    /\ parse_out # NoParse
    /\ Len(parse_out.value) = 2
    /\ parse_out.value[2] = <<"rashwn", "10:30", "12:30">>

(***************************************************************************)
(* Properties of the points of a record (SpecData).                        *)
(***************************************************************************)
\* C24 (as claimed): "3.00" is stored as "3", "3.50" as "3.5" and "0.00" as
\* "0", and the points stored for a digit, a point and a fraction never end
\* with a zero of the fraction nor with the point.
C24_NoTrailingZeroNorPoint ==
    data_out.kind = "record" =>
        LET sent == data_in.Points
            points == data_out.course.points
        IN  /\ sent = <<"3", ".", "0", "0">> => points = <<"3">>
            /\ sent = <<"3", ".", "5", "0">> => points = <<"3", ".", "5">>
            /\ sent = <<"0", ".", "0", "0">> => points = <<"0">>
            /\ (\E i \in DOMAIN points : points[i] = ".")
                  => points[Len(points)] \notin {"0", "."}

(***************************************************************************)
(* Properties of the delay of the course loop (Spec).                      *)
(***************************************************************************)
\* C25 (as claimed): between any two attempts of the course loop there is a
\* delay, whether the earlier attempt succeeded or failed.
C25_DelayBetweenAttempts ==
    \A i, j \in DOMAIN events :
        (i < j /\ events[i].kind = "attempt" /\ events[j].kind = "attempt")
            => \E k \in (i + 1)..(j - 1) : events[k].kind = "sleep"

(***************************************************************************)
(* Properties of a course whose schedule query fails (SpecAttempt).        *)
(***************************************************************************)
\* The schedule query of the latest attempt was sent and _send_request
\* raised its RuntimeError for the answer.
ScheduleQueryFailed ==
    /\ last_attempt # NoAttempt
    /\ "status" \in DOMAIN last_attempt.schedule_resp
    /\ \/ last_attempt.schedule_resp.status # 202
       \/ last_attempt.schedule_resp.chunks # 3

\* C26: when the schedule query of a course fails in _send_request,
\* get_course_data still returns a record for the course, with an empty
\* schedule, and the loop counts the course as a success: the record is
\* appended and the course is not among the failed ones.
C26_ScheduleFailureStillSucceeds ==
    ScheduleQueryFailed =>
        /\ last_attempt.outcome = "return"
        /\ Len(courses) = 1
        /\ courses[1].course_number = CleanCourseNumber(last_attempt.id)
        /\ courses[1].schedule = <<>>
        /\ failed_courses = <<>>
        /\ pc \in {"loop", "fetched"}

\* A course whose schedule query got status 500 is in the snapshot file.
C26_Witness ==
    /\ ScheduleQueryFailed
    /\ last_attempt.schedule_resp.status = 500
    /\ pc = "fetched"
    /\ Len(courses) = 1
    /\ files[output_dir] = SaveToJson(courses)

(***************************************************************************)
(* Properties of the entries of the response cache (SpecCache).            *)
(***************************************************************************)
\* The query has an entry in the cache files cfiles.
HasEntry(q, cfiles) == GetCacheFile(q) \in DOMAIN cfiles

\* C27 (as claimed): the entry of a query holds the payload of an upstream
\* call for that same query that passed the checks.  As a step property: an
\* entry of a query comes into being only in a call for that query which
\* went to the upstream and returned, and it holds the payload returned,
\* which passed the empty-result check of the call; a call that raises
\* leaves the cache as it is; an entry is never overwritten or removed.
C27_EntryHoldsPayloadOfItsQuery ==
    [][ /\ \A q \in Queries :
             HasEntry(q, cache_files) =>
                /\ HasEntry(q, cache_files')
                /\ cache_files'[GetCacheFile(q)] = cache_files[GetCacheFile(q)]
        /\ (last_call' # NoCall /\ last_call'.result.outcome = "raise")
              => cache_files' = cache_files
        /\ \A q \in Queries :
             (~HasEntry(q, cache_files) /\ HasEntry(q, cache_files')) =>
                /\ cache_dir # None
                /\ last_call' # NoCall
                /\ last_call'.query = q
                /\ last_call'.upstream = 1
                /\ last_call'.result.outcome = "return"
                /\ cache_files'[GetCacheFile(q)] = JsonDump(last_call'.result.value)
                /\ last_call'.allow_empty \/ last_call'.result.value # EmptyResults
      ]_vars

(***************************************************************************)
(* Properties of the batches of a save function (SpecSave).                *)
(***************************************************************************)
SaveReturned == save_in # NoSave /\ save_out.pc = "return"

\* Every record is set in exactly one committed batch, in input order, no
\* committed batch holds more than 500 writes or none, and no write is left
\* in a batch that is not committed.
AllSetInBatches ==
    LET batches == save_out.committed IN
    /\ Flatten(batches) = [k \in 1..save_in.n |-> k]
    /\ \A b \in DOMAIN batches :
          Len(batches[b]) >= 1 /\ Len(batches[b]) <= 500
    /\ save_in.n = 0 => batches = <<>>
    /\ save_out.batch = <<>>

\* C28 (as claimed): when a save function returns normally for n records,
\* every record has been set in exactly one committed batch, in input
\* order, with no batch of more than 500 writes, no empty batch and no
\* write left uncommitted.
C28_ReturnMeansAllCommitted ==
    SaveReturned => AllSetInBatches

\* C28 (amended): that holds when fetcher.db is initialised; when it is not,
\* the function returns normally with nothing set and nothing committed.
C28_AllCommittedWithStore ==
    SaveReturned =>
        /\ save_in.db = "client" => AllSetInBatches
        /\ save_in.db = "none" => save_out.batch = <<>> /\ save_out.committed = <<>>

\* 1001 records have been saved in batches of 500, 500 and 1.
C28_Witness ==
    /\ SaveReturned
    /\ save_in.db = "client"
    /\ save_in.n = 1001
    /\ Len(save_out.committed) = 3
    /\ Len(save_out.committed[2]) = 500
    /\ save_out.committed[3] = <<1001>>

(***************************************************************************)
(* The memo table of get_building_name over a process (SpecBuilding).      *)
(***************************************************************************)
\* The step is a get_building_name call.
BuildingCallStep == last_building' # NoBuildingCall

\* C29: the result of get_building_name is fixed by the first call for a
\* key: the value a call returns for a new key, the empty string of a
\* failed lookup included, is the value every later call of the process
\* returns for that key, without a query, whatever the upstream would answer
\* then.
C29_FirstResultIsFixed ==
    [][BuildingCallStep =>
          LET call == last_building' IN
          /\ \A key \in DOMAIN building_memo :
                /\ key \in DOMAIN building_memo'
                /\ building_memo'[key] = building_memo[key]
          /\ call.key \in DOMAIN building_memo =>
                /\ call.result = Return(building_memo[call.key])
                /\ call.upstream = 0
                /\ building_queries' = building_queries
          /\ call.key \notin DOMAIN building_memo =>
                /\ call.result.outcome = "return"
                /\ call.key \in DOMAIN building_memo'
                /\ building_memo'[call.key] = call.result.value]_vars

\* A key whose lookup failed is called again and answered with the empty
\* string from the table, with the response cache disabled.
C29_Witness ==
    /\ last_building # NoBuildingCall
    /\ last_building.memo_hit
    /\ last_building.key.room_id # ""
    /\ last_building.result = Return(<<>>)
    /\ building_queries[last_building.key] = 1
    /\ cache_dir = None
    /\ cache_files = EmptyDict

(***************************************************************************)
(* A term without records (Spec: one term of the loop of main, with the    *)
(* two counters of the loop).                                              *)
(***************************************************************************)
\* The term produced at least one record and was saved, or it raised.
TermCounts == pc \in {"saved", "term_failed"}

\* C30: a term whose fetch returns no record writes no course document and
\* no semester metadata to the document store and increments neither
\* counter, so successful_fetches + failed_fetches is the number of terms
\* that produced at least one record or raised.
C30_EmptyTermWritesAndCountsNothing ==
    [][/\ (pc = "fetched" /\ courses = <<>>) =>
              /\ pc' = "skipped"
              /\ UNCHANGED <<metadata, committed, store_docs,
                             successful_fetches, failed_fetches>>
       /\ (successful_fetches + failed_fetches = IF TermCounts THEN 1 ELSE 0)'
       /\ pc' = "skipped" =>
              (metadata = NoDocument /\ committed = <<>>)']_vars

\* A term of two listed courses that both failed: nothing written, nothing
\* counted.
C30_Witness ==
    /\ pc = "skipped"
    /\ Len(course_numbers) = 2
    /\ Len(failed_courses) = 2
    /\ courses = <<>>
    /\ metadata = NoDocument
    /\ committed = <<>>
    /\ successful_fetches = 0
    /\ failed_fetches = 0

====
